---- MODULE Spec2Model ----
(***************************************************************************)
(* A model of the wallet engine: the account / address data model          *)
(* (src/src/account/mod.rs, src/src/address.rs), the input selection       *)
(* (src/src/account/sync/input_selection.rs), the event bus                *)
(* (src/src/event.rs) and the monitor (src/src/monitor.rs).                *)
(*                                                                         *)
(* Each subsystem has its own specification over the shared variables:     *)
(*   Spec          a foreground generate_address and the reconciliation    *)
(*                 tasks of the monitor on one stored account              *)
(*   SpecSelect    select_input on bounded candidate lists                 *)
(*   SpecMessages  list_messages on bounded message histories              *)
(*   SpecAddresses generate_address and append_addresses on one account    *)
(*   SpecAppend    one append_addresses on bounded address lists           *)
(*   SpecEvents    registrations and emissions on the event bus            *)
(*   SpecRegister  registration calls during and after emissions           *)
(*   SpecMonitor   output and message-metadata notifications on one        *)
(*                 stored account                                          *)
(*   SpecLocks     threads calling get_account_addresses_lock              *)
(*   SpecAccount   the setters, save_pending_changes and the release of    *)
(*                 an account value                                        *)
(*   SpecLatest    latest_address on bounded address lists                 *)
(*   SpecListAddresses  list_addresses on bounded lists and histories      *)
(*   SpecOutputs   output notifications alone on one stored account        *)
(*   SpecFlush     a held account value and the output notifications       *)
(*   SpecGenerate  generate_address on bounded address lists               *)
(*   SpecSubscribe monitor_confirmation_state_change with any message id   *)
(*   SpecInitialise  AccountInitialiser::initialise on one storage         *)
(***************************************************************************)
EXTENDS Integers, Sequences, FiniteSets, Bags, TLC

(***************************************************************************)
(* Bounds of the model.                                                    *)
(***************************************************************************)
MaxUtxos == 3
MaxBalance == 3
MaxMessages == 3
MaxCount == 1
MaxAddresses == 3
MaxAppend == 2
MaxListeners == 3
MaxTasks == 2
MaxNotifications == 2
MaxCallers == 2
MaxSpends == 2
(* the accounts one storage holds *)
MaxAccounts == 3

(* 2i128.checked_pow(n) overflows from n = 127 on: i128 has 127 value bits *)
I128Bits == 127

VARIABLES
    available_utxos,    \* select_input: the caller's candidate list (&mut [Input])
    sel_before,         \* select_input: the candidate list as it was passed in
    sel_target,         \* select_input: the target of the call
    sel_result,         \* select_input: what the call returned
    account,            \* the in-memory Account value of the foreground caller
    storage,            \* the persisted record of the account
    call,               \* the last call on the account: op, args, the account
                        \* before the call, and what the call returned
    fg_pc,              \* where the foreground caller is in generate_address
    tasks,              \* monitor: the reconciliation tasks (one thread each)
    subscribed,         \* monitor: the addresses whose output topic is subscribed
    emitted,            \* monitor: the events the reconciliation tasks emitted
    listeners,          \* event bus: the listener vector of every channel
    emitting,           \* event bus: per channel, the emit call that holds the
                        \* channel's mutex, if any
    poisoned,           \* event bus: per channel, whether a listener panicked
                        \* while the mutex was held
    registering,        \* event bus: the registration call (on_...) a thread
                        \* is in, if any
    lock_registry,      \* ACCOUNT_ADDRESSES_LOCK: its mutex and its map
    lock_threads,       \* the threads that call get_account_addresses_lock
    delivery,           \* monitor: the thread that runs the subscription
                        \* handlers of the message-metadata topics
    metadata_subscribed \* monitor: the subscribed message-metadata topics, each
                        \* with the message its handler captured

selVars == <<available_utxos, sel_before, sel_target, sel_result>>
acctVars == <<account, storage, call, fg_pc>>
monVars == <<tasks, subscribed, emitted>>
busVars == <<listeners, emitting, poisoned, registering>>
lockVars == <<lock_registry, lock_threads>>
metaVars == <<delivery, metadata_subscribed>>
vars == <<available_utxos, sel_before, sel_target, sel_result, account, storage, call,
          fg_pc, tasks, subscribed, emitted, listeners, emitting, poisoned,
          registering, lock_registry, lock_threads, delivery, metadata_subscribed>>

(***************************************************************************)
(* Generic helpers.                                                        *)
(***************************************************************************)
SeqsUpTo(S, n) == UNION {[1..k -> S] : k \in 0..n}

Perms(n) == {p \in [1..n -> 1..n] : \A i, j \in 1..n : p[i] = p[j] => i = j}

Permute(s, p) == [i \in 1..Len(s) |-> s[p[i]]]

RECURSIVE SeqToBag(_)
SeqToBag(s) ==
    IF s = <<>> THEN EmptyBag ELSE SeqToBag(Tail(s)) (+) SetToBag({Head(s)})

(***************************************************************************)
(* The account (struct Account) and its message history.                   *)
(***************************************************************************)
Payloads == {"p", "q"}

(* Option<bool> *)
OptionBool == {"None", "Some(false)", "Some(true)"}

(* the fields of the external Message type this code reads *)
Message == [id : 1..MaxMessages, payload : Payloads, confirmed : OptionBool,
            broadcasted : BOOLEAN, incoming : BOOLEAN, value : 0..1]

(* Option<MessageType> *)
MessageTypes == {"None", "Received", "Sent", "Failed", "Unconfirmed", "Value"}

NewAccount == [addresses |-> <<>>, messages |-> <<>>, alias |-> "alias",
               client_options |-> "node1", has_pending_changes |-> FALSE]

(* the serialised account: has_pending_changes is #[serde(skip)] *)
Stored(acc) == [addresses |-> acc.addresses, messages |-> acc.messages,
                alias |-> acc.alias, client_options |-> acc.client_options]

(* the aliases and the client options the setters are called with *)
Aliases == {"alias", "updated alias"}

ClientOptionsValues == {"node1", "node2"}

(* account.set_alias(alias) with the flag set whatever the alias *)
set_alias_always_dirty(acc, alias) ==
    [acc EXCEPT !.has_pending_changes = TRUE, !.alias = alias]

(* account.set_alias(alias) *)
set_alias(acc, alias) ==
    [acc EXCEPT !.has_pending_changes = IF ~@ THEN alias # acc.alias ELSE @,
                !.alias = alias]

(* account.set_client_options(options) *)
set_client_options(acc, options) ==
    [acc EXCEPT !.has_pending_changes = IF ~@ THEN options # acc.client_options ELSE @,
                !.client_options = options]

(* account.save_pending_changes() with the flag cleared before the save *)
save_pending_changes_clear_first(acc, stored, save_ok) ==
    IF acc.has_pending_changes
    THEN IF save_ok
         THEN [account |-> [acc EXCEPT !.has_pending_changes = FALSE],
               storage |-> Stored(acc), saves |-> 1, ok |-> TRUE]
         ELSE [account |-> [acc EXCEPT !.has_pending_changes = FALSE],
               storage |-> stored, saves |-> 1, ok |-> FALSE]
    ELSE [account |-> acc, storage |-> stored, saves |-> 0, ok |-> TRUE]

(* account.save_pending_changes() without the test of the flag *)
save_pending_changes_always(acc, stored, save_ok) ==
    IF save_ok
    THEN [account |-> [acc EXCEPT !.has_pending_changes = FALSE],
          storage |-> Stored(acc), saves |-> 1, ok |-> TRUE]
    ELSE [account |-> acc, storage |-> stored, saves |-> 1, ok |-> FALSE]

(* account.save_pending_changes() on the stored record `stored`, the save  *)
(* succeeding or not: the account and the stored record after the call,    *)
(* the number of calls of save_account, and whether Ok is returned         *)
save_pending_changes(acc, stored, save_ok) ==
    IF acc.has_pending_changes
    THEN IF save_ok
         THEN [account |-> [acc EXCEPT !.has_pending_changes = FALSE],
               storage |-> Stored(acc), saves |-> 1, ok |-> TRUE]
         ELSE [account |-> acc, storage |-> stored, saves |-> 1, ok |-> FALSE]
    ELSE [account |-> acc, storage |-> stored, saves |-> 0, ok |-> TRUE]

(* message.confirmed().unwrap_or(false) *)
ConfirmedOrFalse(message) == message.confirmed = "Some(true)"

(* messages.iter().position(|m| m.payload() == message.payload()); 0 is None *)
PositionOfPayload(messages, payload) ==
    IF \E i \in 1..Len(messages) : messages[i].payload = payload
    THEN CHOOSE i \in 1..Len(messages) :
            /\ messages[i].payload = payload
            /\ \A j \in 1..(i - 1) : messages[j].payload # payload
    ELSE 0

(* Vec::remove(index), 1-based *)
RemoveAt(s, i) == SubSeq(s, 1, i - 1) \o SubSeq(s, i + 1, Len(s))

(* the match on message_type of list_messages *)
should_push(message, message_type) ==
    CASE message_type = "Received" -> message.incoming
      [] message_type = "Sent" -> ~message.incoming
      [] message_type = "Failed" -> ~message.broadcasted
      [] message_type = "Unconfirmed" -> ~ConfirmedOrFalse(message)
      [] message_type = "Value" -> message.value > 0
      [] OTHER -> TRUE

(* the loop body with the reattachment always replacing the original *)
list_messages_step_always_replace(messages, message, message_type) ==
    LET original_message_index == PositionOfPayload(messages, message.payload)
        kept == IF original_message_index # 0
                THEN RemoveAt(messages, original_message_index) ELSE messages
    IN  IF should_push(message, message_type) THEN Append(kept, message) ELSE kept

(* one iteration of the loop of list_messages: messages is the vector      *)
(* built so far, message the element of self.messages at hand              *)
list_messages_step(messages, message, message_type) ==
    LET original_message_index == PositionOfPayload(messages, message.payload)
    IN  IF original_message_index # 0
           /\ ConfirmedOrFalse(messages[original_message_index])
        THEN messages
        ELSE LET kept == IF original_message_index # 0
                         THEN RemoveAt(messages, original_message_index)
                         ELSE messages
             IN  IF should_push(message, message_type)
                 THEN Append(kept, message) ELSE kept

(* the for loop of list_messages over self.messages[i..] *)
RECURSIVE list_messages_loop(_, _, _, _)
list_messages_loop(stored, i, messages, message_type) ==
    IF i > Len(stored) THEN messages
    ELSE list_messages_loop(stored, i + 1,
                            list_messages_step(messages, stored[i], message_type),
                            message_type)

(* messages.into_iter().skip(from), then take(count) unless count == 0 *)
SkipTake(messages, count, from) ==
    LET skipped == SubSeq(messages, from + 1, Len(messages))
    IN  IF count = 0 THEN skipped
        ELSE SubSeq(skipped, 1, IF count < Len(skipped) THEN count ELSE Len(skipped))

list_messages(acc, count, from, message_type) ==
    SkipTake(list_messages_loop(acc.messages, 1, <<>>, message_type), count, from)

(* the fields the type filters read, drawn from two profiles so that every *)
(* filter meets a message it keeps and a message it drops                  *)
MessageFlags == {[broadcasted |-> TRUE, incoming |-> TRUE, value |-> 1],
                 [broadcasted |-> FALSE, incoming |-> FALSE, value |-> 0]}

(* a message without its id *)
MessageBody == [payload : Payloads, confirmed : OptionBool, flags : MessageFlags]

WithId(body, id) ==
    [id |-> id, payload |-> body.payload, confirmed |-> body.confirmed,
     broadcasted |-> body.flags.broadcasted, incoming |-> body.flags.incoming,
     value |-> body.flags.value]

(* the histories: the message at position i has id i *)
Histories ==
    UNION {{[i \in 1..k |-> WithId(b[i], i)] : b \in [1..k -> MessageBody]} :
           k \in 0..MaxMessages}

(***************************************************************************)
(* Addresses (struct Address) and the address list of the account.         *)
(***************************************************************************)
KeyIndexes == 0..(MaxAddresses - 1)

(* the balances the node reports for an address *)
AddrBalances == {0, 1}

(* stronghold.address_get(account.id(), key_index, false): the address     *)
(* derived for a key index, one per index                                  *)
AddressGet(key_index) == <<"ed25519", key_index>>

(* the checksum is always the empty string (generate_checksum) *)
Address == {[address |-> AddressGet(k), balance |-> b, key_index |-> k] :
            k \in KeyIndexes, b \in AddrBalances}

(* impl PartialEq for Address: the key indexes are equal *)
AddressEq(a, b) == a.key_index = b.key_index

(* #[derive(PartialEq)] would compare every field *)
PositionOfAddressDerivedEq(addresses, address) ==
    IF \E i \in 1..Len(addresses) : addresses[i] = address
    THEN CHOOSE i \in 1..Len(addresses) :
            /\ addresses[i] = address
            /\ \A j \in 1..(i - 1) : addresses[j] # address
    ELSE 0

(* self.addresses.iter().position(|a| a == &address); 0 is None *)
PositionOfAddress(addresses, address) ==
    IF \E i \in 1..Len(addresses) : AddressEq(addresses[i], address)
    THEN CHOOSE i \in 1..Len(addresses) :
            /\ AddressEq(addresses[i], address)
            /\ \A j \in 1..(i - 1) : ~AddressEq(addresses[j], address)
    ELSE 0

(* the closure of append_addresses, for one address *)
append_address(addresses, address) ==
    LET index == PositionOfAddress(addresses, address)
    IN  IF index # 0 THEN [addresses EXCEPT ![index] = address]
        ELSE Append(addresses, address)

(* append_addresses: for_each over the appended list *)
RECURSIVE append_addresses(_, _)
append_addresses(addresses, list) ==
    IF list = <<>> THEN addresses
    ELSE append_addresses(append_address(addresses, Head(list)), Tail(list))

(* get_new_address with the key indexes counted from one *)
get_new_address_from_one(acc, balance) ==
    [address |-> AddressGet(Len(acc.addresses) + 1), balance |-> balance,
     key_index |-> Len(acc.addresses) + 1]

(* get_new_iota_address and get_new_address: the key index is the number   *)
(* of addresses, the balance is what the node reports                      *)
get_new_address(acc, balance) ==
    [address |-> AddressGet(Len(acc.addresses)), balance |-> balance,
     key_index |-> Len(acc.addresses)]

(* the address lists without a repeated key index *)
DistinctKeys(addresses) ==
    \A i, j \in 1..Len(addresses) :
        addresses[i].key_index = addresses[j].key_index => i = j

(* the addresses with the flag that latest_address reads with             *)
(* a.internal(): whether the address is a change address                   *)
AddressWithInternal ==
    {[address |-> AddressGet(k), balance |-> 0, key_index |-> k, internal |-> n] :
        k \in KeyIndexes, n \in BOOLEAN}

(* the positions of the addresses that pass .filter(|a| !a.internal()) *)
NonInternal(addresses) == {i \in 1..Len(addresses) : ~addresses[i].internal}

(* Iterator::max_by_key over the positions in S: the last of the elements  *)
(* with the maximum key, 0 when S is empty                                 *)
MaxByKeyIndex(addresses, S) ==
    IF S = {} THEN 0
    ELSE CHOOSE i \in S :
            \A j \in S : \/ addresses[j].key_index < addresses[i].key_index
                         \/ /\ addresses[j].key_index = addresses[i].key_index
                            /\ j <= i

(* Option<&Address> *)
OptionAddress(addresses, i) ==
    IF i = 0 THEN [some |-> FALSE] ELSE [some |-> TRUE, address |-> addresses[i]]

(* account.latest_address() without the filter *)
latest_address_any(acc) ==
    OptionAddress(acc.addresses,
                  MaxByKeyIndex(acc.addresses, 1..Len(acc.addresses)))

(* account.latest_address() *)
latest_address(acc) ==
    OptionAddress(acc.addresses,
                  MaxByKeyIndex(acc.addresses, NonInternal(acc.addresses)))

(* the messages is_unspent reads: message.value().without_denomination()   *)
(* is the field value, message.address().address() the field address       *)
TransferMessage ==
    {[id |-> 1, payload |-> "p", confirmed |-> "None", broadcasted |-> TRUE,
      incoming |-> v > 0, value |-> v, address |-> AddressGet(k)] :
        v \in {-1, 1}, k \in KeyIndexes}

(* address::is_unspent(account, address) *)
is_unspent(acc, address) ==
    \E i \in 1..Len(acc.messages) :
        /\ acc.messages[i].value < 0
        /\ acc.messages[i].address = address

(* account.list_addresses(unspent) *)
list_addresses(acc, unspent) ==
    SelectSeq(acc.addresses, LAMBDA a : is_unspent(acc, a.address) = unspent)

(***************************************************************************)
(* The monitor: reconciliation of output notifications.                    *)
(***************************************************************************)
Tasks == 1..MaxTasks

(* the message ids the node reports *)
MessageIds == {1, 2}

IdleTask == [pc |-> "idle"]

(* client.get_message().data(&message_id) and Message::from_iota_message(  *)
(* message_id, .., Some(true)): the record built for a message of the node *)
from_iota_message(message_id) ==
    [id |-> message_id, payload |-> IF message_id = 1 THEN "p" ELSE "q",
     confirmed |-> "Some(true)", broadcasted |-> TRUE, incoming |-> TRUE,
     value |-> 1]

(* address.handle_new_output(output): the output's amount joins the balance *)
handle_new_output(address, amount) == [address EXCEPT !.balance = @ + amount]

(* addresses.iter_mut().find(|a| a.address() == &address); 0 is None *)
PositionOfAddressValue(addresses, value) ==
    IF \E i \in 1..Len(addresses) : addresses[i].address = value
    THEN CHOOSE i \in 1..Len(addresses) :
            /\ addresses[i].address = value
            /\ \A j \in 1..(i - 1) : addresses[j].address # value
    ELSE 0

(* account.messages_mut().iter().position(|m| m.id() == &message_id_) *)
PositionOfMessage(messages, message_id) ==
    IF \E i \in 1..Len(messages) : messages[i].id = message_id
    THEN CHOOSE i \in 1..Len(messages) :
            /\ messages[i].id = message_id
            /\ \A j \in 1..(i - 1) : messages[j].id # message_id
    ELSE 0

(* the closure of process_output without the search of the history: the   *)
(* message is always built and pushed                                      *)
process_output_cb_always_push(acc, address, amount, message_id) ==
    LET address_index == PositionOfAddressValue(acc.addresses, address)
        address_to_update == handle_new_output(acc.addresses[address_index], amount)
        with_balance == [acc EXCEPT !.addresses[address_index] = address_to_update]
    IN  [account |-> [with_balance EXCEPT
                         !.messages = Append(@, from_iota_message(message_id))],
         events |-> <<[type |-> "Balance", address |-> address,
                       balance |-> address_to_update.balance],
                      [type |-> "NewTransaction", message_id |-> message_id]>>]

(* the closure process_output passes to mutate_account, on the loaded      *)
(* account: the account it leaves and the events it emits. The caller has  *)
(* checked that the address is there (the closure unwraps the find).       *)
process_output_cb(acc, address, amount, message_id) ==
    LET address_index == PositionOfAddressValue(acc.addresses, address)
        address_to_update == handle_new_output(acc.addresses[address_index], amount)
        with_balance == [acc EXCEPT !.addresses[address_index] = address_to_update]
        balance_event == [type |-> "Balance", address |-> address,
                          balance |-> address_to_update.balance]
        message_index == PositionOfMessage(acc.messages, message_id)
    IN  IF message_index # 0
        THEN [account |-> [with_balance EXCEPT
                              !.messages[message_index].confirmed = "Some(true)"],
              events |-> <<balance_event>>]
        ELSE [account |-> [with_balance EXCEPT
                              !.messages = Append(@, from_iota_message(message_id))],
              events |-> <<balance_event,
                           [type |-> "NewTransaction", message_id |-> message_id]>>]

(* storage::get_account: the account as it was saved *)
Loaded(record) == [addresses |-> record.addresses, messages |-> record.messages,
                   alias |-> record.alias, client_options |-> record.client_options,
                   has_pending_changes |-> FALSE]

(* the message-metadata payloads of the node: one that does not parse,    *)
(* one without ledger_inclusion_state, and the inclusion states            *)
MetadataPayloads == {"unparsable", "none", "included", "conflicting"}

(* Option<bool> of a bool *)
SomeBool(b) == IF b THEN "Some(true)" ELSE "Some(false)"

(* process_metadata, lines 221-223: whether the notification leads to      *)
(* mutate_account. message is the clone the handler captured when the      *)
(* topic was subscribed.                                                   *)
metadata_differs(message, payload) ==
    /\ payload \in {"included", "conflicting"}
    /\ \/ message.confirmed = "None"
       \/ SomeBool(payload = "included") # message.confirmed

(* the closure process_metadata passes to mutate_account, on the loaded    *)
(* account: the account it leaves and the event it emits (previous is the  *)
(* flag the message had). The caller has checked that the message is       *)
(* there (the closure unwraps the find).                                   *)
process_metadata_cb(acc, message_id, confirmed) ==
    LET i == PositionOfMessage(acc.messages, message_id)
    IN  [account |-> [acc EXCEPT !.messages[i].confirmed = SomeBool(confirmed)],
         events |-> <<[type |-> "ConfirmationChange", message_id |-> message_id,
                       confirmed |-> confirmed,
                       previous |-> acc.messages[i].confirmed]>>]

(***************************************************************************)
(* The event bus.                                                          *)
(***************************************************************************)
(* the three listener registries *)
Channels == {"balance", "transaction", "confirmation"}

(* enum TransactionEventType *)
TransactionEventTypes == {"NewTransaction", "Reattachment", "Broadcast"}

(* what the emit functions are called with; event_type is "none" on the    *)
(* channels that have no kinds                                             *)
Emissions(channel) ==
    CASE channel = "balance" ->
            {[event_type |-> "none",
              fields |-> [account_id |-> 1, address |-> AddressGet(0), balance |-> b]] :
             b \in AddrBalances}
      [] channel = "transaction" ->
            {[event_type |-> t, fields |-> [account_id |-> 1, message_id |-> 1]] :
             t \in TransactionEventTypes}
      [] channel = "confirmation" ->
            {[event_type |-> "none",
              fields |-> [account_id |-> 1, message_id |-> 1, confirmed |-> c]] :
             c \in BOOLEAN}

(* the kinds a listener of a channel registers for *)
ListenerTypes(channel) ==
    IF channel = "transaction" THEN TransactionEventTypes ELSE {"none"}

NoEmission == [active |-> FALSE]

RegisteredCount ==
    Len(listeners["balance"]) + Len(listeners["transaction"])
        + Len(listeners["confirmation"])

(* emit_transaction_event without the test of the event type *)
ListenerMatchesAny(listener, emission) == TRUE

(* emit_transaction_event with the test of the event type inverted *)
ListenerMatchesOtherKinds(listener, emission) ==
    listener.event_type # emission.event_type

(* if listener.event_type == event_type; the other two emit functions      *)
(* call every listener                                                     *)
ListenerMatches(listener, emission) == listener.event_type = emission.event_type

(* the event value a listener is called with *)
EventFor(emission) == emission.fields

(***************************************************************************)
(* Input selection.                                                        *)
(***************************************************************************)
InputAddresses == {"a", "b"}

Input == [address : InputAddresses, balance : 0..MaxBalance]

MaxTarget == MaxUtxos * MaxBalance + 1

(* iter().fold(0, |acc, address| acc + address.balance) *)
RECURSIVE SumBalance(_)
SumBalance(s) ==
    IF s = <<>> THEN 0 ELSE Head(s).balance + SumBalance(Tail(s))

(* a step of the sort that overwrites the head of the list instead of      *)
(* shifting it                                                             *)
InsertDescOverwriting(x, s) == IF s = <<>> THEN <<x>> ELSE <<x>> \o Tail(s)

(* one step of the stable sort: x goes behind every element that is not   *)
(* smaller than it                                                         *)
RECURSIVE InsertDesc(_, _)
InsertDesc(x, s) ==
    IF s = <<>> THEN <<x>>
    ELSE IF Head(s).balance >= x.balance THEN <<Head(s)>> \o InsertDesc(x, Tail(s))
    ELSE <<x>> \o s

(* available_utxos.sort_by(|a, b| b.balance.cmp(&a.balance)): stable,      *)
(* descending by balance                                                   *)
RECURSIVE SortDesc(_)
SortDesc(s) ==
    IF s = <<>> THEN <<>>
    ELSE InsertDesc(s[Len(s)], SortDesc(SubSeq(s, 1, Len(s) - 1)))

InitialTries(n) == IF n < I128Bits THEN 2 ^ n ELSE 2 ^ I128Bits - 1

(* branch_and_bound without the omission branch *)
RECURSIVE branch_and_bound_no_omission(_, _, _, _, _, _)
branch_and_bound_no_omission(target, utxos, depth, current_selection, effective_value, tries) ==
    IF effective_value > target THEN [found |-> FALSE, selection |-> current_selection]
    ELSE IF effective_value = target THEN [found |-> TRUE, selection |-> current_selection]
    ELSE IF tries <= 0 \/ depth >= Len(utxos)
         THEN [found |-> FALSE, selection |-> current_selection]
    ELSE branch_and_bound_no_omission(target, utxos, depth + 1,
                                      Append(current_selection, utxos[depth + 1]),
                                      effective_value + utxos[depth + 1].balance,
                                      tries - 1)

(* branch_and_bound: depth is 0-based as in the code, utxos[depth + 1] is  *)
(* available_utxos[depth]; tries is passed by value, so every call gets    *)
(* its caller's count minus one                                            *)
RECURSIVE branch_and_bound(_, _, _, _, _, _)
branch_and_bound(target, utxos, depth, current_selection, effective_value, tries) ==
    IF effective_value > target THEN [found |-> FALSE, selection |-> current_selection]
    ELSE IF effective_value = target THEN [found |-> TRUE, selection |-> current_selection]
    ELSE IF tries <= 0 \/ depth >= Len(utxos)
         THEN [found |-> FALSE, selection |-> current_selection]
    ELSE LET tries_ == tries - 1
             current_utxo_value == utxos[depth + 1].balance
             inclusion == branch_and_bound(target, utxos, depth + 1,
                                           Append(current_selection, utxos[depth + 1]),
                                           effective_value + current_utxo_value, tries_)
         IN  IF inclusion.found THEN inclusion
             ELSE branch_and_bound(target, utxos, depth + 1, current_selection,
                                   effective_value, tries_)

(* single_random_draw taking every candidate *)
single_random_draw_all(target, shuffled) == shuffled

(* the take_while of single_random_draw, element i onwards *)
RECURSIVE TakeWhileSum(_, _, _, _)
TakeWhileSum(target, utxos, i, sum) ==
    IF i > Len(utxos) THEN <<>>
    ELSE LET old_sum == sum
         IN  IF old_sum < target
             THEN <<utxos[i]>> \o TakeWhileSum(target, utxos, i + 1, sum + utxos[i].balance)
             ELSE <<>>

(* the take_while testing the sum after the addition *)
RECURSIVE TakeWhileNewSum(_, _, _, _)
TakeWhileNewSum(target, utxos, i, sum) ==
    IF i > Len(utxos) THEN <<>>
    ELSE IF sum + utxos[i].balance < target
         THEN <<utxos[i]>> \o TakeWhileNewSum(target, utxos, i + 1, sum + utxos[i].balance)
         ELSE <<>>

single_random_draw_new_sum(target, shuffled) == TakeWhileNewSum(target, shuffled, 1, 0)

(* single_random_draw on the list as thread_rng().shuffle left it *)
single_random_draw(target, shuffled) == TakeWhileSum(target, shuffled, 1, 0)

(* select_input with the funds check off by one *)
select_input_ge(target, utxos) ==
    IF target >= SumBalance(utxos)
    THEN {[ok |-> FALSE, error |-> "InsufficientFunds", coins |-> <<>>,
           via |-> "none", utxos |-> utxos]}
    ELSE {[ok |-> TRUE, error |-> "none",
           coins |-> single_random_draw(target, Permute(SortDesc(utxos), perm)),
           via |-> "single_random_draw", utxos |-> Permute(SortDesc(utxos), perm)] :
          perm \in Perms(Len(utxos))}

(* select_input: the set of its possible outcomes, one for every order the *)
(* shuffle can produce. An outcome carries the list as the call leaves it  *)
(* (utxos) and which search produced the selection (via).                  *)
select_input(target, utxos) ==
    IF target > SumBalance(utxos)
    THEN {[ok |-> FALSE, error |-> "InsufficientFunds", coins |-> <<>>,
           via |-> "none", utxos |-> utxos]}
    ELSE LET sorted == SortDesc(utxos)
             result == branch_and_bound(target, sorted, 0, <<>>, 0,
                                        InitialTries(Len(sorted)))
         IN  IF result.found
             THEN {[ok |-> TRUE, error |-> "none", coins |-> result.selection,
                    via |-> "branch_and_bound", utxos |-> sorted]}
             ELSE {[ok |-> TRUE, error |-> "none",
                    coins |-> single_random_draw(target, Permute(sorted, perm)),
                    via |-> "single_random_draw", utxos |-> Permute(sorted, perm)] :
                   perm \in Perms(Len(sorted))}

(***************************************************************************)
(* The states in which a subsystem has not been used.                      *)
(***************************************************************************)
NoResult == [ok |-> FALSE, error |-> "not called", coins |-> <<>>,
             via |-> "none", utxos |-> <<>>]

SelectIdle ==
    /\ available_utxos = <<>>
    /\ sel_before = <<>>
    /\ sel_target = 0
    /\ sel_result = NoResult

NoCall == [op |-> "none", args |-> <<>>, before |-> <<>>, result |-> <<>>]

NoRegistration == [state |-> "none"]

BusIdle ==
    /\ listeners = [c \in Channels |-> <<>>]
    /\ emitting = [c \in Channels |-> NoEmission]
    /\ poisoned = [c \in Channels |-> FALSE]
    /\ registering = NoRegistration

(* ACCOUNT_ADDRESSES_LOCK before its first use *)
LocksIdle ==
    /\ lock_registry = [holder |-> 0, locks |-> <<>>, created |-> 0]
    /\ lock_threads = <<>>

(* result is what process_metadata returned for the last notification *)
IdleDelivery == [pc |-> "idle", notifications |-> 0, result |-> "none"]

MetadataIdle ==
    /\ delivery = IdleDelivery
    /\ metadata_subscribed = {}

MonitorIdle ==
    /\ tasks = [t \in Tasks |-> IdleTask]
    /\ subscribed = {}
    /\ emitted = <<>>
    /\ MetadataIdle
    /\ LocksIdle

AccountIdle ==
    /\ account = NewAccount
    /\ storage = Stored(NewAccount)
    /\ call = NoCall
    /\ fg_pc = "idle"
    /\ MonitorIdle

(***************************************************************************)
(* SpecSelect: select_input applied to bounded candidate lists.            *)
(***************************************************************************)
InitSelect ==
    /\ available_utxos \in SeqsUpTo(Input, MaxUtxos)
    /\ sel_before = available_utxos
    /\ sel_target = 0
    /\ sel_result = NoResult
    /\ AccountIdle
    /\ BusIdle

(* a call of select_input(target, &mut available_utxos) *)
SelectInput ==
    /\ sel_result = NoResult
    /\ \E target \in 0..MaxTarget :
          \E r \in select_input(target, available_utxos) :
              /\ sel_target' = target
              /\ sel_before' = available_utxos
              /\ sel_result' = r
              /\ available_utxos' = r.utxos
    /\ UNCHANGED <<acctVars, monVars, busVars, lockVars, metaVars>>

NextSelect == SelectInput

SpecSelect == InitSelect /\ [][NextSelect]_vars

(***************************************************************************)
(* SpecMessages: list_messages applied to bounded message histories.       *)
(***************************************************************************)
InitMessages ==
    /\ account \in {[NewAccount EXCEPT !.messages = h] : h \in Histories}
    /\ storage = Stored(account)
    /\ call = NoCall
    /\ fg_pc = "idle"
    /\ MonitorIdle
    /\ SelectIdle
    /\ BusIdle

(* a call of account.list_messages(count, from, message_type) *)
ListMessages ==
    /\ call = NoCall
    /\ \E count \in 0..MaxCount, from \in 0..MaxCount, message_type \in MessageTypes :
          call' = [op |-> "list_messages",
                   args |-> [count |-> count, from |-> from,
                             message_type |-> message_type],
                   before |-> account,
                   result |-> list_messages(account, count, from, message_type)]
    /\ UNCHANGED <<account, storage, fg_pc, monVars, selVars, busVars, lockVars, metaVars>>

NextMessages == ListMessages

SpecMessages == InitMessages /\ [][NextMessages]_vars

(***************************************************************************)
(* SpecAddresses: generate_address and append_addresses, called one after  *)
(* the other on an account whose key indexes are pairwise distinct.        *)
(***************************************************************************)
InitAddresses ==
    /\ account \in {[NewAccount EXCEPT !.addresses = a] :
                    a \in {x \in SeqsUpTo(Address, MaxAddresses) : DistinctKeys(x)}}
    /\ storage = Stored(account)
    /\ call = NoCall
    /\ fg_pc = "idle"
    /\ MonitorIdle
    /\ SelectIdle
    /\ BusIdle

(* account.generate_address(), lines 389-390: get_new_address (the signer  *)
(* or the balance query may fail, and nothing changes) and the push        *)
FgGenerate ==
    /\ fg_pc = "idle"
    /\ Len(account.addresses) < MaxAddresses
    /\ \E balance \in AddrBalances, signer_ok \in BOOLEAN :
          LET address == get_new_address(account, balance)
          IN  IF ~signer_ok
              THEN /\ call' = [op |-> "generate_address", args |-> <<>>,
                               before |-> account, result |-> [ok |-> FALSE]]
                   /\ UNCHANGED <<account, fg_pc>>
              ELSE /\ account' = [account EXCEPT !.addresses = Append(@, address)]
                   /\ fg_pc' = "pushed"
                   /\ call' = [op |-> "generate_address", args |-> <<>>,
                               before |-> account,
                               result |-> [ok |-> TRUE, address |-> address]]
    /\ UNCHANGED <<storage, monVars, selVars, busVars, lockVars, metaVars>>

(* account.generate_address(), lines 392-396: the save (it may fail: the   *)
(* error is returned and the pushed address stays in memory), then         *)
(* monitor_address_balance, whose failure is ignored                       *)
FgSave ==
    /\ fg_pc = "pushed"
    /\ \E save_ok, monitor_ok \in BOOLEAN :
          IF save_ok
          THEN /\ storage' = Stored(account)
               /\ subscribed' = IF monitor_ok
                                THEN subscribed \cup {call.result.address.address}
                                ELSE subscribed
               /\ UNCHANGED call
          ELSE /\ call' = [call EXCEPT !.result = [ok |-> FALSE]]
               /\ UNCHANGED <<storage, subscribed>>
    /\ fg_pc' = "idle"
    /\ UNCHANGED <<account, tasks, emitted, selVars, busVars, lockVars, metaVars>>

(* account.append_addresses(list): in memory only *)
AppendAddresses ==
    /\ fg_pc = "idle"
    /\ \E list \in SeqsUpTo(Address, MaxAppend) :
          /\ Len(append_addresses(account.addresses, list)) <= MaxAddresses
          /\ account' = [account EXCEPT !.addresses = append_addresses(@, list)]
          /\ call' = [op |-> "append_addresses", args |-> list,
                      before |-> account, result |-> <<>>]
    /\ UNCHANGED <<storage, fg_pc, monVars, selVars, busVars, lockVars, metaVars>>

NextAddresses == FgGenerate \/ FgSave \/ AppendAddresses

SpecAddresses == InitAddresses /\ [][NextAddresses]_vars

(***************************************************************************)
(* Spec: one stored account, a foreground caller that holds it in memory   *)
(* and generates addresses, and the threads the monitor spawns for output  *)
(* notifications. The steps of a thread are its accesses to the storage.   *)
(***************************************************************************)
FirstAddress == [address |-> AddressGet(0), balance |-> 0, key_index |-> 0]

(* the message the account starts with: sent, not yet confirmed *)
FirstMessage == [id |-> 1, payload |-> "p", confirmed |-> "None",
                 broadcasted |-> TRUE, incoming |-> FALSE, value |-> 1]

Init ==
    /\ account = [NewAccount EXCEPT !.addresses = <<FirstAddress>>,
                                    !.messages = <<FirstMessage>>]
    /\ storage = Stored(account)
    /\ call = NoCall
    /\ fg_pc = "idle"
    /\ tasks = [t \in Tasks |-> IdleTask]
    /\ subscribed = {FirstAddress.address}
    /\ emitted = <<>>
    /\ MetadataIdle
    /\ LocksIdle
    /\ SelectIdle
    /\ BusIdle

(* the handler of monitor_address_balance spawns a thread for an output    *)
(* notification; process_output, lines 125-144: the payload is parsed and  *)
(* the message is fetched from the node, and either may fail               *)
OutputNotification(t) ==
    /\ tasks[t].pc = "idle"
    /\ \E address \in subscribed, message_id \in MessageIds,
          parse_ok, fetch_ok \in BOOLEAN :
          tasks' = [tasks EXCEPT ![t] =
                       [pc |-> IF parse_ok /\ fetch_ok THEN "fetched" ELSE "done",
                        address |-> address, amount |-> 1,
                        message_id |-> message_id,
                        fetched |-> parse_ok,
                        account |-> <<>>,
                        result |-> IF parse_ok /\ fetch_ok THEN "running" ELSE "Err"]]
    /\ UNCHANGED <<acctVars, subscribed, emitted, selVars, busVars, lockVars, metaVars>>

(* mutate_account, lines 57-58: the account is loaded from the storage     *)
(* (which may fail) and the closure runs on it; the closure panics when    *)
(* the address is not in the loaded account                                *)
TaskLoadAndMutate(t) ==
    /\ tasks[t].pc = "fetched"
    /\ \E load_ok \in BOOLEAN :
          IF ~load_ok
          THEN /\ tasks' = [tasks EXCEPT ![t].pc = "done", ![t].result = "Err"]
               /\ UNCHANGED emitted
          ELSE IF PositionOfAddressValue(storage.addresses, tasks[t].address) = 0
          THEN /\ tasks' = [tasks EXCEPT ![t].pc = "done", ![t].result = "panic"]
               /\ UNCHANGED emitted
          ELSE LET r == process_output_cb(Loaded(storage), tasks[t].address,
                                          tasks[t].amount, tasks[t].message_id)
               IN  /\ tasks' = [tasks EXCEPT ![t].pc = "mutated",
                                             ![t].account = r.account]
                   /\ emitted' = emitted \o r.events
    /\ UNCHANGED <<acctVars, subscribed, selVars, busVars, lockVars, metaVars>>

(* mutate_account, lines 59-60: the mutated account is saved, which may    *)
(* fail                                                                    *)
TaskSave(t) ==
    /\ tasks[t].pc = "mutated"
    /\ \E save_ok \in BOOLEAN :
          IF save_ok
          THEN /\ storage' = Stored(tasks[t].account)
               /\ tasks' = [tasks EXCEPT ![t].pc = "done", ![t].result = "Ok"]
          ELSE /\ tasks' = [tasks EXCEPT ![t].pc = "done", ![t].result = "Err"]
               /\ UNCHANGED storage
    /\ UNCHANGED <<account, call, fg_pc, subscribed, emitted, selVars, busVars, lockVars, metaVars>>

Next ==
    \/ FgGenerate
    \/ FgSave
    \/ \E t \in Tasks : OutputNotification(t)
    \/ \E t \in Tasks : TaskLoadAndMutate(t)
    \/ \E t \in Tasks : TaskSave(t)

Spec == Init /\ [][Next]_vars

(***************************************************************************)
(* SpecAppend: append_addresses applied once to bounded address lists      *)
(* (repeated key indexes included) and bounded appended lists.             *)
(***************************************************************************)
InitAppend ==
    /\ account \in {[NewAccount EXCEPT !.addresses = a] :
                    a \in SeqsUpTo(Address, MaxAddresses)}
    /\ storage = Stored(account)
    /\ call = NoCall
    /\ fg_pc = "idle"
    /\ MonitorIdle
    /\ SelectIdle
    /\ BusIdle

(* account.append_addresses(list), the first call on the account *)
AppendOnce ==
    /\ call = NoCall
    /\ \E list \in SeqsUpTo(Address, MaxAppend) :
          /\ account' = [account EXCEPT !.addresses = append_addresses(@, list)]
          /\ call' = [op |-> "append_addresses", args |-> list,
                      before |-> account, result |-> <<>>]
    /\ UNCHANGED <<storage, fg_pc, monVars, selVars, busVars, lockVars, metaVars>>

NextAppend == AppendOnce

SpecAppend == InitAppend /\ [][NextAppend]_vars

(***************************************************************************)
(* SpecEvents: listeners are registered and events are emitted, the emit   *)
(* calls of different channels running concurrently. A listener is named   *)
(* by the number of its registration.                                      *)
(***************************************************************************)
InitEvents ==
    /\ BusIdle
    /\ AccountIdle
    /\ SelectIdle

(* on_balance_change, on_new_transaction, on_reattachment, on_broadcast,   *)
(* on_confirmation_state_change: lock the registry and push the handler.   *)
(* The lock is free only while no emit call iterates the registry.         *)
Register(channel, event_type) ==
    /\ RegisteredCount < MaxListeners
    /\ ~emitting[channel].active
    /\ ~poisoned[channel]
    /\ listeners' = [listeners EXCEPT ![channel] =
                        Append(@, [id |-> RegisteredCount + 1,
                                   event_type |-> event_type])]
    /\ UNCHANGED <<emitting, poisoned, acctVars, monVars, selVars, lockVars, metaVars, registering>>

(* an emit function locks the registry of its channel *)
EmitBegin(channel, emission) ==
    /\ ~emitting[channel].active
    /\ ~poisoned[channel]
    /\ emitting' = [emitting EXCEPT ![channel] =
                       [active |-> TRUE, channel |-> channel, emission |-> emission,
                        next |-> 1, calls |-> <<>>,
                        at_begin |-> listeners[channel]]]
    /\ UNCHANGED <<listeners, poisoned, acctVars, monVars, selVars, lockVars, metaVars, registering>>

(* one iteration of the for loop of an emit function: the listener is      *)
(* called if it matches, and returns                                       *)
EmitCall(channel) ==
    /\ emitting[channel].active
    /\ emitting[channel].next <= Len(listeners[channel])
    /\ LET e == emitting[channel]
           listener == listeners[channel][e.next]
       IN  emitting' = [emitting EXCEPT ![channel] =
                [e EXCEPT !.next = @ + 1,
                          !.calls = IF ListenerMatches(listener, e.emission)
                                    THEN Append(@, [listener |-> listener.id,
                                                    event |-> EventFor(e.emission)])
                                    ELSE @]]
    /\ UNCHANGED <<listeners, poisoned, acctVars, monVars, selVars, lockVars, metaVars, registering>>

(* the listener at hand is called and panics: the emit call unwinds, the   *)
(* guard is dropped and the mutex is poisoned                              *)
EmitCallPanics(channel) ==
    /\ emitting[channel].active
    /\ emitting[channel].next <= Len(listeners[channel])
    /\ ListenerMatches(listeners[channel][emitting[channel].next],
                       emitting[channel].emission)
    /\ emitting' = [emitting EXCEPT ![channel] = NoEmission]
    /\ poisoned' = [poisoned EXCEPT ![channel] = TRUE]
    /\ UNCHANGED <<listeners, acctVars, monVars, selVars, lockVars, metaVars, registering>>

(* the loop is over: the guard is dropped and the emit function returns *)
EmitReturn(channel) ==
    /\ emitting[channel].active
    /\ emitting[channel].next > Len(listeners[channel])
    /\ emitting' = [emitting EXCEPT ![channel] = NoEmission]
    /\ UNCHANGED <<listeners, poisoned, acctVars, monVars, selVars, lockVars, metaVars, registering>>

NextEvents ==
    \E channel \in Channels :
        \/ \E event_type \in ListenerTypes(channel) : Register(channel, event_type)
        \/ \E emission \in Emissions(channel) : EmitBegin(channel, emission)
        \/ EmitCall(channel)
        \/ EmitCallPanics(channel)
        \/ EmitReturn(channel)

SpecEvents == InitEvents /\ [][NextEvents]_vars

(***************************************************************************)
(* SpecRegister: the emit calls of SpecEvents, and a thread that calls the *)
(* registration functions at any moment: while no emit call runs, while    *)
(* one runs on another thread, from inside the listener an emit call is    *)
(* calling, and after a listener has panicked.                             *)
(***************************************************************************)
InitRegister ==
    /\ BusIdle
    /\ AccountIdle
    /\ SelectIdle

(* l.push(handler), lines 94-96, 158-161, 176-178 *)
PushListener(registry, event_type) ==
    Append(registry, [id |-> RegisteredCount + 1, event_type |-> event_type])

(* the listener an emit call is calling: the one the loop is at, if the    *)
(* emission is for it                                                      *)
InsideListener(channel) ==
    /\ emitting[channel].active
    /\ emitting[channel].next <= Len(listeners[channel])
    /\ ListenerMatches(listeners[channel][emitting[channel].next],
                       emitting[channel].emission)

(* on_balance_change, add_transaction_listener,                            *)
(* on_confirmation_state_change: registry.lock().expect(..), then the      *)
(* push. lock() blocks while another thread holds the mutex, returns Err   *)
(* (and expect panics) when the mutex is poisoned, and either panics or    *)
(* deadlocks when the calling thread holds the mutex itself, which is the  *)
(* case inside a listener of the channel: the guard of the emit function   *)
(* lives until the loop is over. A panic inside the listener unwinds the   *)
(* emit call.                                                              *)
RegisterCall(channel, event_type, inside) ==
    /\ registering.state \in {"none", "returned"}
    /\ RegisteredCount < MaxListeners
    /\ inside => InsideListener(channel)
    /\ LET this == [channel |-> channel, event_type |-> event_type, inside |-> inside]
       IN  IF inside
           THEN \/ /\ registering' = [state |-> "deadlocked"] @@ this
                   /\ UNCHANGED <<listeners, emitting, poisoned>>
                \/ /\ registering' = [state |-> "panicked"] @@ this
                   /\ emitting' = [emitting EXCEPT ![channel] = NoEmission]
                   /\ poisoned' = [poisoned EXCEPT ![channel] = TRUE]
                   /\ UNCHANGED listeners
           ELSE IF emitting[channel].active
           THEN /\ registering' = [state |-> "blocked"] @@ this
                /\ UNCHANGED <<listeners, emitting, poisoned>>
           ELSE IF poisoned[channel]
           THEN /\ registering' = [state |-> "panicked"] @@ this
                /\ UNCHANGED <<listeners, emitting, poisoned>>
           ELSE /\ registering' = [state |-> "returned"] @@ this
                /\ listeners' = [listeners EXCEPT ![channel] =
                                    PushListener(@, event_type)]
                /\ UNCHANGED <<emitting, poisoned>>
    /\ UNCHANGED <<acctVars, monVars, selVars, lockVars, metaVars>>

(* the emit call that held the mutex is over: the blocked lock() returns,  *)
(* with Err if the emit call ended in a panic                              *)
RegisterResume ==
    /\ registering.state = "blocked"
    /\ ~emitting[registering.channel].active
    /\ IF poisoned[registering.channel]
       THEN /\ registering' = [registering EXCEPT !.state = "panicked"]
            /\ UNCHANGED listeners
       ELSE /\ registering' = [registering EXCEPT !.state = "returned"]
            /\ listeners' = [listeners EXCEPT ![registering.channel] =
                                PushListener(@, registering.event_type)]
    /\ UNCHANGED <<emitting, poisoned, acctVars, monVars, selVars, lockVars, metaVars>>

(* the listener an emit call is calling waits for the mutex the emit call  *)
(* holds                                                                   *)
Deadlocked(channel) ==
    /\ registering.state = "deadlocked"
    /\ registering.channel = channel

(* an emit function takes the mutex after the registration that waits for  *)
(* it or before: lock() is not fair                                        *)
NextRegister ==
    \/ RegisterResume
    \/ \E channel \in Channels :
        \/ \E event_type \in ListenerTypes(channel), inside \in BOOLEAN :
              RegisterCall(channel, event_type, inside)
        \/ \E emission \in Emissions(channel) : EmitBegin(channel, emission)
        \/ ~Deadlocked(channel) /\ EmitCall(channel)
        \/ ~Deadlocked(channel) /\ EmitCallPanics(channel)
        \/ EmitReturn(channel)

SpecRegister == InitRegister /\ [][NextRegister]_vars

(***************************************************************************)
(* SpecMonitor: the account of Spec with its monitor. The foreground       *)
(* caller appends a message and subscribes message-metadata topics; output *)
(* notifications run in spawned threads as in Spec, message-metadata       *)
(* notifications run in the thread that delivers them.                     *)
(***************************************************************************)
SecondMessage == [id |-> 2, payload |-> "q", confirmed |-> "None",
                  broadcasted |-> TRUE, incoming |-> FALSE, value |-> 1]

InitMonitor ==
    /\ account = [NewAccount EXCEPT !.addresses = <<FirstAddress>>,
                                    !.messages = <<FirstMessage>>]
    /\ storage = Stored(account)
    /\ call = NoCall
    /\ fg_pc = "idle"
    /\ tasks = [t \in Tasks |-> IdleTask]
    /\ subscribed = {FirstAddress.address}
    /\ emitted = <<>>
    /\ MetadataIdle
    /\ LocksIdle
    /\ SelectIdle
    /\ BusIdle

(* account.append_messages(vec![message]): in memory only *)
FgAppendMessages ==
    /\ PositionOfMessage(account.messages, SecondMessage.id) = 0
    /\ account' = [account EXCEPT !.messages = Append(@, SecondMessage)]
    /\ UNCHANGED <<storage, call, fg_pc, monVars, selVars, busVars, lockVars, metaVars>>

(* monitor_confirmation_state_change(&account, message_id): the handler    *)
(* captures a clone of the message as the account holds it now (the find   *)
(* is unwrapped: the message is one of the account)                        *)
FgMonitorMessage(message_id) ==
    /\ PositionOfMessage(account.messages, message_id) # 0
    /\ \A s \in metadata_subscribed : s.message_id # message_id
    /\ metadata_subscribed' = metadata_subscribed \cup
          {[message_id |-> message_id,
            message |-> account.messages[PositionOfMessage(account.messages,
                                                           message_id)]]}
    /\ UNCHANGED <<acctVars, monVars, selVars, busVars, lockVars, delivery>>

(* the handler of a message-metadata topic runs process_metadata in the    *)
(* delivering thread; lines 219-223: the payload is parsed (which may      *)
(* fail, and the error is dropped) and compared with the captured message  *)
MetadataNotification(s, payload) ==
    /\ delivery.pc = "idle"
    /\ delivery.notifications < MaxNotifications
    /\ s \in metadata_subscribed
    /\ delivery' =
          IF metadata_differs(s.message, payload)
          THEN [pc |-> "parsed", notifications |-> delivery.notifications + 1,
                result |-> "running",
                message_id |-> s.message_id, confirmed |-> payload = "included"]
          ELSE [pc |-> "idle", notifications |-> delivery.notifications + 1,
                result |-> IF payload = "unparsable" THEN "Err" ELSE "Ok"]
    /\ UNCHANGED <<acctVars, monVars, selVars, busVars, lockVars, metadata_subscribed>>

(* mutate_account, lines 57-58, in the delivering thread: the account is   *)
(* loaded (which may fail) and the closure runs on it; the closure panics  *)
(* when the message is not in the loaded account, and the panic unwinds    *)
(* through process_metadata into the handler                               *)
MetadataLoadAndMutate ==
    /\ delivery.pc = "parsed"
    /\ \E load_ok \in BOOLEAN :
          IF ~load_ok
          THEN /\ delivery' = [pc |-> "idle", notifications |-> delivery.notifications,
                               result |-> "Err"]
               /\ UNCHANGED emitted
          ELSE IF PositionOfMessage(storage.messages, delivery.message_id) = 0
          THEN /\ delivery' = [pc |-> "panicked",
                               notifications |-> delivery.notifications,
                               result |-> "panic"]
               /\ UNCHANGED emitted
          ELSE LET r == process_metadata_cb(Loaded(storage), delivery.message_id,
                                            delivery.confirmed)
               IN  /\ delivery' = [pc |-> "mutated",
                                   notifications |-> delivery.notifications,
                                   result |-> "running", account |-> r.account]
                   /\ emitted' = emitted \o r.events
    /\ UNCHANGED <<acctVars, tasks, subscribed, selVars, busVars, lockVars,
                   metadata_subscribed>>

(* mutate_account, lines 59-60, in the delivering thread: the save, which  *)
(* may fail; process_metadata returns and the handler drops the result     *)
MetadataSave ==
    /\ delivery.pc = "mutated"
    /\ \E save_ok \in BOOLEAN :
          IF save_ok
          THEN /\ storage' = Stored(delivery.account)
               /\ delivery' = [pc |-> "idle", notifications |-> delivery.notifications,
                               result |-> "Ok"]
          ELSE /\ delivery' = [pc |-> "idle", notifications |-> delivery.notifications,
                               result |-> "Err"]
               /\ UNCHANGED storage
    /\ UNCHANGED <<account, call, fg_pc, monVars, selVars, busVars, lockVars,
                   metadata_subscribed>>

NextMonitor ==
    \/ FgAppendMessages
    \/ \E message_id \in MessageIds : FgMonitorMessage(message_id)
    \/ \E s \in metadata_subscribed, payload \in MetadataPayloads :
          MetadataNotification(s, payload)
    \/ MetadataLoadAndMutate
    \/ MetadataSave
    \/ \E t \in Tasks : OutputNotification(t)
    \/ \E t \in Tasks : TaskLoadAndMutate(t)
    \/ \E t \in Tasks : TaskSave(t)

SpecMonitor == InitMonitor /\ [][NextMonitor]_vars

(***************************************************************************)
(* SpecLocks: threads that call get_account_addresses_lock, one statement  *)
(* of the function at a time.                                              *)
(***************************************************************************)
(* enum AccountIdentifier with the derived Eq and Hash: Id("0") and        *)
(* Index(0), the index written as a string                                 *)
AccountIdentifiers == {[kind |-> "Id", value |-> "0"], [kind |-> "Index", value |-> "0"]}

LockCallers == 1..MaxCallers

IdleCaller == [pc |-> "idle", returned |-> FALSE]

InitLocks ==
    /\ lock_registry = [holder |-> 0, locks |-> <<>>, created |-> 0]
    /\ lock_threads = [t \in LockCallers |-> IdleCaller]
    /\ account = NewAccount
    /\ storage = Stored(NewAccount)
    /\ call = NoCall
    /\ fg_pc = "idle"
    /\ tasks = [t \in Tasks |-> IdleTask]
    /\ subscribed = {}
    /\ emitted = <<>>
    /\ MetadataIdle
    /\ SelectIdle
    /\ BusIdle

(* any thread may take the mutex of the registry *)
RegistryFreeAlways(holder) == TRUE

(* Mutex::lock returns when no thread holds the mutex *)
RegistryFree(holder) == holder = 0

(* a thread calls get_account_addresses_lock(account_id); first records    *)
(* whether the map has no lock for the identifier at this moment           *)
LockCall(t, account_id) ==
    /\ lock_threads[t].pc = "idle"
    /\ lock_threads' = [lock_threads EXCEPT ![t] =
                           [pc |-> "called", account_id |-> account_id,
                            first |-> account_id \notin DOMAIN lock_registry.locks,
                            returned |-> FALSE]]
    /\ UNCHANGED <<lock_registry, acctVars, monVars, selVars, busVars, metaVars>>

(* line 33: ACCOUNT_ADDRESSES_LOCK.get_or_init(..).lock().unwrap() *)
LockAcquire(t) ==
    /\ lock_threads[t].pc = "called"
    /\ RegistryFree(lock_registry.holder)
    /\ lock_registry' = [lock_registry EXCEPT !.holder = t]
    /\ lock_threads' = [lock_threads EXCEPT ![t].pc = "locked"]
    /\ UNCHANGED <<acctVars, monVars, selVars, busVars, metaVars>>

(* line 34: if !locks.contains_key(&account_id) *)
LockContainsKey(t) ==
    /\ lock_threads[t].pc = "locked"
    /\ lock_threads' = [lock_threads EXCEPT ![t].pc =
                           IF lock_threads[t].account_id \in DOMAIN lock_registry.locks
                           THEN "present" ELSE "absent"]
    /\ UNCHANGED <<lock_registry, acctVars, monVars, selVars, busVars, metaVars>>

(* line 35: locks.insert(account_id.clone(), Default::default()): a new    *)
(* lock instance, named by the count of the instances created so far       *)
LockInsert(t) ==
    /\ lock_threads[t].pc = "absent"
    /\ lock_registry' = [lock_registry EXCEPT
                            !.created = @ + 1,
                            !.locks = (lock_threads[t].account_id :>
                                           (lock_registry.created + 1)) @@ @]
    /\ lock_threads' = [lock_threads EXCEPT ![t].pc = "present"]
    /\ UNCHANGED <<acctVars, monVars, selVars, busVars, metaVars>>

(* line 37: locks.get(&account_id).unwrap().clone(); the guard is dropped  *)
(* and the function returns the clone of the Arc                           *)
LockReturn(t) ==
    /\ lock_threads[t].pc = "present"
    /\ lock_threads' = [lock_threads EXCEPT ![t] =
                           [pc |-> "idle", account_id |-> lock_threads[t].account_id,
                            first |-> lock_threads[t].first, returned |-> TRUE,
                            lock |-> lock_registry.locks[lock_threads[t].account_id]]]
    /\ lock_registry' = [lock_registry EXCEPT !.holder = 0]
    /\ UNCHANGED <<acctVars, monVars, selVars, busVars, metaVars>>

NextLocks ==
    \E t \in LockCallers :
        \/ \E account_id \in AccountIdentifiers : LockCall(t, account_id)
        \/ LockAcquire(t)
        \/ LockContainsKey(t)
        \/ LockInsert(t)
        \/ LockReturn(t)

SpecLocks == InitLocks /\ [][NextLocks]_vars

(***************************************************************************)
(* SpecAccount: one account value: its setters, save_pending_changes, its  *)
(* release (Drop), and a new value loaded from the storage afterwards.     *)
(***************************************************************************)
InitAccount ==
    /\ account \in {[NewAccount EXCEPT !.alias = a, !.client_options = o] :
                    a \in Aliases, o \in ClientOptionsValues}
    /\ storage = Stored(account)
    /\ call = NoCall
    /\ fg_pc = "idle"
    /\ MonitorIdle
    /\ SelectIdle
    /\ BusIdle

(* account.set_alias(alias) *)
SetAlias(alias) ==
    /\ fg_pc = "idle"
    /\ account' = set_alias(account, alias)
    /\ call' = [op |-> "set_alias", args |-> alias, before |-> account,
                result |-> <<>>]
    /\ UNCHANGED <<storage, fg_pc, monVars, selVars, busVars, lockVars, metaVars>>

(* account.set_client_options(options) *)
SetClientOptions(options) ==
    /\ fg_pc = "idle"
    /\ account' = set_client_options(account, options)
    /\ call' = [op |-> "set_client_options", args |-> options, before |-> account,
                result |-> <<>>]
    /\ UNCHANGED <<storage, fg_pc, monVars, selVars, busVars, lockVars, metaVars>>

(* account.save_pending_changes(), called by the owner of the account *)
SavePendingChanges ==
    /\ fg_pc = "idle"
    /\ \E save_ok \in BOOLEAN :
          LET r == save_pending_changes(account, storage, save_ok)
          IN  /\ account' = r.account
              /\ storage' = r.storage
              /\ call' = [op |-> "save_pending_changes", args |-> <<>>,
                          before |-> account,
                          result |-> [ok |-> r.ok, saves |-> r.saves,
                                      stored_before |-> storage]]
    /\ UNCHANGED <<fg_pc, monVars, selVars, busVars, lockVars, metaVars>>

(* the account value goes out of scope: drop calls save_pending_changes    *)
(* and ignores what it returns                                             *)
Drop ==
    /\ fg_pc = "idle"
    /\ \E save_ok \in BOOLEAN :
          LET r == save_pending_changes(account, storage, save_ok)
          IN  /\ account' = r.account
              /\ storage' = r.storage
              /\ call' = [op |-> "drop", args |-> <<>>, before |-> account,
                          result |-> [saves |-> r.saves, save_ok |-> save_ok,
                                      stored_before |-> storage]]
    /\ fg_pc' = "dropped"
    /\ UNCHANGED <<monVars, selVars, busVars, lockVars, metaVars>>

(* storage::get_account: a new account value *)
GetAccount ==
    /\ fg_pc = "dropped"
    /\ account' = Loaded(storage)
    /\ fg_pc' = "idle"
    /\ UNCHANGED <<storage, call, monVars, selVars, busVars, lockVars, metaVars>>

NextAccount ==
    \/ \E alias \in Aliases : SetAlias(alias)
    \/ \E options \in ClientOptionsValues : SetClientOptions(options)
    \/ SavePendingChanges
    \/ Drop
    \/ GetAccount

SpecAccount == InitAccount /\ [][NextAccount]_vars

(***************************************************************************)
(* SpecLatest: latest_address applied to bounded address lists, internal   *)
(* addresses and repeated key indexes included.                            *)
(***************************************************************************)
InitLatest ==
    /\ account \in {[NewAccount EXCEPT !.addresses = a] :
                    a \in SeqsUpTo(AddressWithInternal, MaxAddresses)}
    /\ storage = Stored(account)
    /\ call = NoCall
    /\ fg_pc = "idle"
    /\ MonitorIdle
    /\ SelectIdle
    /\ BusIdle

(* a call of account.latest_address() *)
LatestAddress ==
    /\ call = NoCall
    /\ call' = [op |-> "latest_address", args |-> <<>>, before |-> account,
                result |-> latest_address(account)]
    /\ UNCHANGED <<account, storage, fg_pc, monVars, selVars, busVars, lockVars, metaVars>>

NextLatest == LatestAddress

SpecLatest == InitLatest /\ [][NextLatest]_vars

(***************************************************************************)
(* SpecListAddresses: list_addresses applied to bounded address lists and  *)
(* bounded histories of incoming and outgoing messages.                    *)
(***************************************************************************)
InitListAddresses ==
    /\ account \in {[NewAccount EXCEPT !.addresses = a, !.messages = m] :
                    a \in SeqsUpTo(Address, MaxAddresses),
                    m \in SeqsUpTo(TransferMessage, MaxSpends)}
    /\ storage = Stored(account)
    /\ call = NoCall
    /\ fg_pc = "idle"
    /\ MonitorIdle
    /\ SelectIdle
    /\ BusIdle

(* a call of account.list_addresses(unspent) *)
ListAddresses(unspent) ==
    /\ call = NoCall
    /\ call' = [op |-> "list_addresses", args |-> unspent, before |-> account,
                result |-> list_addresses(account, unspent)]
    /\ UNCHANGED <<account, storage, fg_pc, monVars, selVars, busVars, lockVars, metaVars>>

NextListAddresses == \E unspent \in BOOLEAN : ListAddresses(unspent)

SpecListAddresses == InitListAddresses /\ [][NextListAddresses]_vars

(***************************************************************************)
(* SpecOutputs: the stored account of Spec and the threads spawned for     *)
(* output notifications, without a foreground caller.                      *)
(***************************************************************************)
NextOutputs ==
    \E t \in Tasks :
        \/ OutputNotification(t)
        \/ TaskLoadAndMutate(t)
        \/ TaskSave(t)

SpecOutputs == Init /\ [][NextOutputs]_vars

(***************************************************************************)
(* SpecFlush: the stored account of Spec, a foreground caller that holds   *)
(* it in memory, sets the alias, saves the pending changes or releases     *)
(* the account and loads it again, and the threads spawned for output      *)
(* notifications.                                                          *)
(***************************************************************************)
NextFlush ==
    \/ \E alias \in Aliases : SetAlias(alias)
    \/ SavePendingChanges
    \/ Drop
    \/ GetAccount
    \/ \E t \in Tasks : OutputNotification(t)
    \/ \E t \in Tasks : TaskLoadAndMutate(t)
    \/ \E t \in Tasks : TaskSave(t)

SpecFlush == Init /\ [][NextFlush]_vars

(***************************************************************************)
(* SpecGenerate: generate_address called one time after the other on       *)
(* bounded address lists, by a caller that is the only writer of the       *)
(* stored record.                                                          *)
(***************************************************************************)
NextGenerate == FgGenerate \/ FgSave

SpecGenerate == InitAppend /\ [][NextGenerate]_vars

(***************************************************************************)
(* SpecSubscribe: the account of SpecMonitor and a foreground thread that  *)
(* calls monitor_confirmation_state_change with any message id, of the     *)
(* account or not, while the subscribed handlers are notified.             *)
(***************************************************************************)
(* monitor_confirmation_state_change(&account, message_id): the result of  *)
(* find is unwrapped before anything is subscribed, so the call panics in  *)
(* the calling thread when the account has no message with that id;        *)
(* otherwise the handler captures a clone of the message and               *)
(* subscribe_to_topic returns Ok or an error                               *)
MonitorConfirmationStateChange(message_id, subscribe_ok) ==
    /\ fg_pc = "idle"
    /\ LET position == PositionOfMessage(account.messages, message_id)
           result == IF position = 0 THEN "panic"
                     ELSE IF subscribe_ok THEN "Ok" ELSE "Err"
       IN  /\ call' = [op |-> "monitor_confirmation_state_change",
                       args |-> message_id, before |-> account,
                       result |-> result]
           /\ fg_pc' = IF position = 0 THEN "panicked" ELSE fg_pc
           /\ metadata_subscribed' =
                 IF result = "Ok"
                 THEN metadata_subscribed \cup
                         {[message_id |-> message_id,
                           message |-> account.messages[position]]}
                 ELSE metadata_subscribed
    /\ UNCHANGED <<account, storage, monVars, selVars, busVars, lockVars, delivery>>

(* the foreground thread appends a message while it runs *)
FgAppendMessagesRunning ==
    /\ fg_pc = "idle"
    /\ FgAppendMessages

NextSubscribe ==
    \/ FgAppendMessagesRunning
    \/ \E message_id \in MessageIds, subscribe_ok \in BOOLEAN :
          MonitorConfirmationStateChange(message_id, subscribe_ok)
    \/ \E s \in metadata_subscribed, payload \in MetadataPayloads :
          MetadataNotification(s, payload)
    \/ MetadataLoadAndMutate
    \/ MetadataSave

SpecSubscribe == InitMonitor /\ [][NextSubscribe]_vars

(***************************************************************************)
(* SpecInitialise: AccountInitialiser::initialise called one time after    *)
(* the other on one storage. In this specification `storage` is the list   *)
(* of the stored account records, as storage.get_all() returns it, and     *)
(* `account` is the account that the last successful call returned.        *)
(***************************************************************************)
(* the identifiers that signer.init_account returns *)
SignerIds == 1..MaxAccounts

(* signer.init_account(&account, mnemonic): an identifier that no stored   *)
(* account has                                                             *)
init_account(accounts) ==
    CHOOSE id \in SignerIds : \A i \in 1..Len(accounts) : accounts[i].id.value # id

(* the builder: messages(), addresses(), skip_persistance() and            *)
(* signer_type(); without the stronghold feature the signer type is None   *)
(* until signer_type() is called                                           *)
AccountInitialisers ==
    [messages : {<<>>, <<FirstMessage>>},
     addresses : {<<>>} \cup {<<a>> : a \in {x \in Address : x.key_index = 0}},
     skip_persistance : BOOLEAN,
     signer_type : {"None", "Some"}]

(* what the collaborators of one call do: storage.get_all, init_account    *)
(* and save_account each succeed or return an error                        *)
Collaborators == {"ok", "get_all fails", "init_account fails", "save_account fails"}

(* account.total_balance() *)
total_balance(acc) == SumBalance(acc.addresses)

(* save_account on the list of stored records: the record of the account's *)
(* id is replaced, a record with a new id is added at the end              *)
save_account(accounts, acc) ==
    IF \E i \in 1..Len(accounts) : accounts[i].id = acc.id
    THEN [i \in 1..Len(accounts) |->
             IF accounts[i].id = acc.id THEN acc ELSE accounts[i]]
    ELSE Append(accounts, acc)

(* initialise with the index taken one above the number of stored accounts *)
initialise_index_from_one(accounts, builder, io) ==
    IF io = "get_all fails" THEN [result |-> "StorageError", accounts |-> accounts]
    ELSE IF builder.signer_type = "None"
         THEN [result |-> "account signer type is required", accounts |-> accounts]
    ELSE IF /\ ~builder.skip_persistance
            /\ accounts # <<>>
            /\ accounts[Len(accounts)].messages = <<>>
            /\ total_balance(accounts[Len(accounts)]) = 0
         THEN [result |-> "LatestAccountIsEmpty", accounts |-> accounts]
    ELSE IF io = "init_account fails"
         THEN [result |-> "SignerError", accounts |-> accounts]
    ELSE LET acc == [id |-> [kind |-> "Id", value |-> init_account(accounts)],
                     index |-> Len(accounts) + 1,
                     messages |-> builder.messages,
                     addresses |-> builder.addresses]
         IN  IF builder.skip_persistance
             THEN [result |-> "Ok", account |-> acc, accounts |-> accounts]
             ELSE IF io = "save_account fails"
                  THEN [result |-> "StorageError", accounts |-> accounts]
             ELSE [result |-> "Ok", account |-> acc,
                   accounts |-> save_account(accounts, acc)]

(* AccountInitialiser::initialise on the stored records `accounts`: the    *)
(* Result, the account when it is Ok, and the stored records after the     *)
(* call                                                                    *)
initialise(accounts, builder, io) ==
    IF io = "get_all fails" THEN [result |-> "StorageError", accounts |-> accounts]
    ELSE IF builder.signer_type = "None"
         THEN [result |-> "account signer type is required", accounts |-> accounts]
    ELSE IF /\ ~builder.skip_persistance
            /\ accounts # <<>>
            /\ accounts[Len(accounts)].messages = <<>>
            /\ total_balance(accounts[Len(accounts)]) = 0
         THEN [result |-> "LatestAccountIsEmpty", accounts |-> accounts]
    ELSE IF io = "init_account fails"
         THEN [result |-> "SignerError", accounts |-> accounts]
    ELSE LET acc == [id |-> [kind |-> "Id", value |-> init_account(accounts)],
                     index |-> Len(accounts),
                     messages |-> builder.messages,
                     addresses |-> builder.addresses]
         IN  IF builder.skip_persistance
             THEN [result |-> "Ok", account |-> acc, accounts |-> accounts]
             ELSE IF io = "save_account fails"
                  THEN [result |-> "StorageError", accounts |-> accounts]
             ELSE [result |-> "Ok", account |-> acc,
                   accounts |-> save_account(accounts, acc)]

InitInitialise ==
    /\ storage = <<>>
    /\ account = NewAccount
    /\ call = NoCall
    /\ fg_pc = "idle"
    /\ MonitorIdle
    /\ SelectIdle
    /\ BusIdle

(* one call of initialise *)
Initialise(builder, io) ==
    /\ Len(storage) < MaxAccounts
    /\ LET r == initialise(storage, builder, io)
       IN  /\ storage' = r.accounts
           /\ account' = IF r.result = "Ok" THEN r.account ELSE account
           /\ call' = [op |-> "initialise", args |-> builder, before |-> storage,
                       result |-> [result |-> r.result, io |-> io]]
    /\ UNCHANGED <<fg_pc, monVars, selVars, busVars, lockVars, metaVars>>

NextInitialise ==
    \E builder \in AccountInitialisers, io \in Collaborators :
        Initialise(builder, io)

SpecInitialise == InitInitialise /\ [][NextInitialise]_vars

(***************************************************************************)
(* Claims about select_input, checked under SpecSelect.                    *)
(***************************************************************************)
SelectCalled == sel_result.error # "not called"

(* the sums the subsets of the candidates (by position) can reach *)
RECURSIVE SubsetSums(_)
SubsetSums(s) ==
    IF s = <<>> THEN {0}
    ELSE LET rest == SubsetSums(Tail(s))
         IN  rest \cup {Head(s).balance + x : x \in rest}

(* C3: whenever the target is at most the sum of the candidate balances,   *)
(* select_input returns Ok, its selection is a sub-multiset of the         *)
(* candidates and the selected balances sum to at least the target.        *)
C3_SelectionCoversTarget ==
    (SelectCalled /\ sel_target <= SumBalance(sel_before)) =>
        /\ sel_result.ok
        /\ SeqToBag(sel_result.coins) \sqsubseteq SeqToBag(sel_before)
        /\ SumBalance(sel_result.coins) >= sel_target

(* the fallback produced a selection of two inputs that overshoots *)
C3_Witness ==
    /\ SelectCalled
    /\ sel_result.via = "single_random_draw"
    /\ Len(sel_result.coins) >= 2
    /\ SumBalance(sel_result.coins) > sel_target

(* C4: select_input fails exactly when the target is greater than the sum  *)
(* of the candidate balances, and the only error is InsufficientFunds.     *)
C4_InsufficientFundsIff ==
    SelectCalled =>
        /\ (~sel_result.ok) <=> (sel_target > SumBalance(sel_before))
        /\ (~sel_result.ok) => sel_result.error = "InsufficientFunds"

(* a call that asked for one more than the candidates hold, and one that   *)
(* asked for all of it                                                     *)
C4_Witness ==
    /\ SelectCalled
    /\ Len(sel_before) >= 2
    /\ sel_target = SumBalance(sel_before) + 1
    /\ ~sel_result.ok

(* C5: when some subset of the candidates sums exactly to the target, the  *)
(* selection sums exactly to the target (it comes from branch_and_bound,   *)
(* never from the fallback).                                               *)
C5_ExactMatchPreferred ==
    (SelectCalled /\ sel_target \in SubsetSums(sel_before)) =>
        /\ sel_result.ok
        /\ sel_result.via = "branch_and_bound"
        /\ SumBalance(sel_result.coins) = sel_target

(* an exact match that needs the omission branch: the largest candidate is *)
(* left out                                                                *)
C5_Witness ==
    /\ SelectCalled
    /\ sel_result.via = "branch_and_bound"
    /\ Len(sel_result.coins) >= 2
    /\ sel_result.coins[1] # available_utxos[1]
    /\ SumBalance(sel_result.coins) = sel_target

(***************************************************************************)
(* Claims about the concurrent mutation of the stored account, checked     *)
(* under Spec.                                                             *)
(***************************************************************************)
(* generate_address has returned Ok *)
GenerateReturnedOk ==
    /\ call.op = "generate_address"
    /\ fg_pc = "idle"
    /\ call.result.ok

StoredKeyIndexes == {storage.addresses[i].key_index : i \in 1..Len(storage.addresses)}

StoredConfirmed(message_id) ==
    \E i \in 1..Len(storage.messages) :
        /\ storage.messages[i].id = message_id
        /\ storage.messages[i].confirmed = "Some(true)"

(* C1: once one generate_address and one reconciliation task on the        *)
(* account have both completed successfully, the stored record holds the   *)
(* generated address and the reconciled message.                           *)
C1_NoLostUpdate ==
    \A t \in Tasks :
        (/\ GenerateReturnedOk
         /\ Len(account.addresses) = 2
         /\ tasks[t].pc = "done"
         /\ tasks[t].result = "Ok"
         /\ \A u \in Tasks \ {t} : tasks[u].pc = "idle")
        => /\ call.result.address.key_index \in StoredKeyIndexes
           /\ StoredConfirmed(tasks[t].message_id)

(* a task between its load and its save *)
TaskInSection(t) == tasks[t].pc = "mutated"

(* the foreground caller between the push and the save of generate_address *)
FgInSection == fg_pc = "pushed"

(* C2: the load-mutate-save sections of two reconciliation tasks, or of a  *)
(* reconciliation task and generate_address, never overlap.                *)
C2_SectionsSerialized ==
    /\ \A t, u \in Tasks : (TaskInSection(t) /\ TaskInSection(u)) => t = u
    /\ \A t \in Tasks : ~(TaskInSection(t) /\ FgInSection)

(***************************************************************************)
(* Claims about the address list: C6 is checked under SpecAddresses, C7    *)
(* under SpecAppend.                                                       *)
(***************************************************************************)
(* C6: the address list holds at most one entry per key index, after any   *)
(* sequence of generate_address and append_addresses calls on an account   *)
(* that started with pairwise distinct key indexes.                        *)
C6_UniqueKeyIndex == DistinctKeys(account.addresses)

KeysOf(addresses) == {addresses[i].key_index : i \in 1..Len(addresses)}

FirstWith(addresses, k) ==
    CHOOSE i \in 1..Len(addresses) :
        /\ addresses[i].key_index = k
        /\ \A j \in 1..(i - 1) : addresses[j].key_index # k

LastWith(addresses, k) ==
    CHOOSE i \in 1..Len(addresses) :
        /\ addresses[i].key_index = k
        /\ \A j \in (i + 1)..Len(addresses) : addresses[j].key_index # k

(* C7: append_addresses is an upsert by key index. Every entry keeps its   *)
(* position and key index; an entry whose key index is not appended keeps  *)
(* its value; the first entry with an appended key index takes the value   *)
(* appended last for it; the length grows by the number of new key         *)
(* indexes, which follow at the end in the order they were first appended. *)
C7_AppendIsUpsertByKeyIndex ==
    call.op = "append_addresses" =>
        LET before == call.before.addresses
            list == call.args
            after == account.addresses
            novel == KeysOf(list) \ KeysOf(before)
        IN  /\ Len(after) = Len(before) + Cardinality(novel)
            /\ \A i \in 1..Len(before) :
                  /\ after[i].key_index = before[i].key_index
                  /\ before[i].key_index \notin KeysOf(list) => after[i] = before[i]
                  /\ (/\ before[i].key_index \in KeysOf(list)
                      /\ i = FirstWith(before, before[i].key_index))
                     => after[i] = list[LastWith(list, before[i].key_index)]
            /\ \A j \in (Len(before) + 1)..Len(after) :
                  /\ after[j].key_index \in novel
                  /\ after[j] = list[LastWith(list, after[j].key_index)]
                  /\ \A h \in (Len(before) + 1)..(j - 1) :
                        FirstWith(list, after[h].key_index)
                            < FirstWith(list, after[j].key_index)

(* an append that overwrites the first of two entries with another balance *)
(* and pushes a new key index behind the untouched second entry            *)
C7_Witness ==
    /\ call.op = "append_addresses"
    /\ Len(call.before.addresses) = 2
    /\ Len(call.args) = 2
    /\ call.args[1].key_index = call.before.addresses[1].key_index
    /\ call.args[1].balance # call.before.addresses[1].balance
    /\ call.args[2].key_index \notin KeysOf(call.before.addresses)
    /\ account.addresses =
          <<call.args[1], call.before.addresses[2], call.args[2]>>

(***************************************************************************)
(* Claims about list_messages, checked under SpecMessages.                 *)
(***************************************************************************)
UnfilteredCall ==
    /\ call.op = "list_messages"
    /\ call.args.count = 0
    /\ call.args.from = 0
    /\ call.args.message_type = "None"

StoredWith(payload) ==
    {i \in 1..Len(account.messages) : account.messages[i].payload = payload}

ListedWith(payload) ==
    {j \in 1..Len(call.result) : call.result[j].payload = payload}

MaxOf(S) == CHOOSE x \in S : \A y \in S : y <= x

(* C8: list_messages(0, 0, None) holds at most one message per payload;    *)
(* for a payload some stored message of which is confirmed the survivor is *)
(* a confirmed stored message, otherwise it is the last stored message     *)
(* with that payload.                                                      *)
C8_ReattachmentCollapse ==
    UnfilteredCall =>
        \A p \in Payloads :
            /\ Cardinality(ListedWith(p)) <= 1
            /\ StoredWith(p) # {} =>
                  \E j \in ListedWith(p) :
                      IF \E i \in StoredWith(p) :
                            account.messages[i].confirmed = "Some(true)"
                      THEN /\ call.result[j].confirmed = "Some(true)"
                           /\ \E i \in StoredWith(p) : account.messages[i] = call.result[j]
                      ELSE call.result[j] = account.messages[MaxOf(StoredWith(p))]

(* three messages of one payload, the confirmed one in the middle: it      *)
(* replaced the first and the third was dropped                            *)
C8_Witness ==
    /\ UnfilteredCall
    /\ Len(account.messages) = 3
    /\ \A i \in 1..3 : account.messages[i].payload = "p"
    /\ account.messages[1].confirmed = "None"
    /\ account.messages[2].confirmed = "Some(true)"
    /\ account.messages[3].confirmed = "Some(false)"
    /\ call.result = <<account.messages[2]>>

(* the reattachments collapsed over the whole history, then the filter,    *)
(* then skip and take                                                      *)
CollapseThenFilter(acc, count, from, message_type) ==
    SkipTake(SelectSeq(list_messages_loop(acc.messages, 1, <<>>, "None"),
                       LAMBDA m : should_push(m, message_type)),
             count, from)

(* C9: list_messages(count, from, filter) is the history collapsed         *)
(* independently of the filter, then filtered, then skipped and taken.     *)
C9_CollapseThenFilter ==
    call.op = "list_messages" =>
        call.result = CollapseThenFilter(account, call.args.count, call.args.from,
                                         call.args.message_type)

(***************************************************************************)
(* Claims about the event bus, checked under SpecEvents.                   *)
(***************************************************************************)
(* an emit call that has finished its loop and is about to return *)
AboutToReturn(channel) ==
    /\ emitting[channel].active
    /\ emitting[channel].next > Len(listeners[channel])

(* one call per listener of a registry, in registration order *)
CallsOfAll(registry, emission) ==
    [i \in 1..Len(registry) |->
        [listener |-> registry[i].id, event |-> emission.fields]]

(* one call per listener of a registry that registered for the emitted     *)
(* kind, in registration order                                             *)
CallsOfKind(registry, emission) ==
    CallsOfAll(SelectSeq(registry, LAMBDA l : l.event_type = emission.event_type),
               emission)

(* C10 as stated: an emit call that returns has called every listener      *)
(* registered on its channel before it began, once, in registration order, *)
(* with the emitted fields, and nobody else.                               *)
C10_EveryListenerOfChannel ==
    \A channel \in Channels :
        AboutToReturn(channel) =>
            emitting[channel].calls =
                CallsOfAll(emitting[channel].at_begin, emitting[channel].emission)

(* C10 as amended: an emit call that returns has called every listener     *)
(* registered on its channel before it began -- on the transaction         *)
(* channel, every one registered for the emitted kind -- once, in          *)
(* registration order, with the emitted fields, and nobody else; no        *)
(* listener joins the registry while the call runs.                        *)
C10_EveryMatchingListener ==
    \A channel \in Channels :
        /\ emitting[channel].active => listeners[channel] = emitting[channel].at_begin
        /\ AboutToReturn(channel) =>
              emitting[channel].calls =
                  CallsOfKind(emitting[channel].at_begin, emitting[channel].emission)

(* a NewTransaction emission about to return after calling the first and   *)
(* the third listener of the registry and skipping the Broadcast listener  *)
(* between them                                                            *)
C10_Witness ==
    /\ AboutToReturn("transaction")
    /\ emitting["transaction"].emission.event_type = "NewTransaction"
    /\ Len(listeners["transaction"]) = 3
    /\ listeners["transaction"][2].event_type = "Broadcast"
    /\ emitting["transaction"].calls =
          <<[listener |-> 1, event |-> [account_id |-> 1, message_id |-> 1]],
            [listener |-> 3, event |-> [account_id |-> 1, message_id |-> 1]]>>

(* the listeners an emit call has called so far *)
CalledListeners(channel) ==
    {emitting[channel].calls[j].listener : j \in 1..Len(emitting[channel].calls)}

(* C11: while emit_transaction_event runs and when it returns, a listener  *)
(* of the transaction registry that the loop has passed has been invoked   *)
(* if and only if it registered for the emitted kind.                      *)
C11_InvokedIffKindMatches ==
    emitting["transaction"].active =>
        \A i \in 1..(emitting["transaction"].next - 1) :
            LET listener == listeners["transaction"][i]
            IN  listener.id \in CalledListeners("transaction")
                    <=> listener.event_type = emitting["transaction"].emission.event_type

(* a Reattachment emission about to return: of a Reattachment and a        *)
(* NewTransaction listener it has invoked the first only                   *)
C11_Witness ==
    /\ AboutToReturn("transaction")
    /\ emitting["transaction"].emission.event_type = "Reattachment"
    /\ Len(listeners["transaction"]) = 2
    /\ listeners["transaction"][1].event_type = "Reattachment"
    /\ listeners["transaction"][2].event_type = "NewTransaction"
    /\ CalledListeners("transaction") = {listeners["transaction"][1].id}

(***************************************************************************)
(* Claims about registration, checked under SpecRegister.                  *)
(***************************************************************************)
(* C12: a registration call always completes: it never waits for the       *)
(* mutex of its registry, never deadlocks on it and never panics.          *)
C12_RegistrationCompletes ==
    registering.state \notin {"blocked", "deadlocked", "panicked"}

(***************************************************************************)
(* Claims about the monitor, checked under SpecMonitor.                    *)
(***************************************************************************)
(* C13: no notification ends the thread that delivers the notifications:   *)
(* whatever fails while one is processed, the handler returns and the      *)
(* next notification is processed.                                         *)
C13_DeliveryContinues == delivery.pc # "panicked"

(* C20: every ConfirmationChange event reports a flag that differs from    *)
(* the flag the stored message had when the event was emitted.             *)
C20_EventOnlyOnChange ==
    \A i \in 1..Len(emitted) :
        emitted[i].type = "ConfirmationChange" =>
            emitted[i].previous # SomeBool(emitted[i].confirmed)

(***************************************************************************)
(* Claims about the lock registry, checked under SpecLocks.                *)
(***************************************************************************)
(* C14: the locks the threads were last handed are the same instance       *)
(* exactly when their identifiers are equal, each is the instance the map  *)
(* holds for its identifier, and no more instances were created than the   *)
(* map has identifiers.                                                    *)
C14_OneLockPerIdentifier ==
    /\ \A t, u \in LockCallers :
          lock_threads[t].returned /\ lock_threads[u].returned =>
              (lock_threads[t].account_id = lock_threads[u].account_id
                   <=> lock_threads[t].lock = lock_threads[u].lock)
    /\ \A t \in LockCallers :
          lock_threads[t].returned =>
              /\ lock_threads[t].account_id \in DOMAIN lock_registry.locks
              /\ lock_registry.locks[lock_threads[t].account_id] = lock_threads[t].lock
    /\ lock_registry.created = Cardinality(DOMAIN lock_registry.locks)

(* two threads made the first call for one identifier while the map had no *)
(* lock for it, and both have returned                                     *)
C14_Witness ==
    /\ lock_threads[1].returned /\ lock_threads[2].returned
    /\ lock_threads[1].pc = "idle" /\ lock_threads[2].pc = "idle"
    /\ lock_threads[1].first /\ lock_threads[2].first
    /\ lock_threads[1].account_id = lock_threads[2].account_id
    /\ lock_threads[1].lock = lock_threads[2].lock
    /\ Cardinality(DOMAIN lock_registry.locks) = 2

(***************************************************************************)
(* Claims about the setters and the release of an account, checked under   *)
(* SpecAccount.                                                            *)
(***************************************************************************)
(* C15: after set_alias(x) or set_client_options(x) the field is x, the    *)
(* dirty flag is the flag before the call or-ed with "x differs from the   *)
(* field before the call", and nothing else of the account has changed.    *)
C15_SetterDirtyFlag ==
    /\ call.op = "set_alias" =>
          account = [call.before EXCEPT
                        !.alias = call.args,
                        !.has_pending_changes =
                            call.before.has_pending_changes
                                \/ call.args # call.before.alias]
    /\ call.op = "set_client_options" =>
          account = [call.before EXCEPT
                        !.client_options = call.args,
                        !.has_pending_changes =
                            call.before.has_pending_changes
                                \/ call.args # call.before.client_options]

(* set_alias with the alias the clean account already has: still clean *)
C15_Witness ==
    /\ call.op = "set_alias"
    /\ ~call.before.has_pending_changes
    /\ call.args = call.before.alias
    /\ ~account.has_pending_changes
    /\ account.alias = call.args

(* C16: an account released with the dirty flag set is saved once, and the *)
(* stored record is then the released account unless the save failed; an   *)
(* account released with the flag clear is not saved and the stored record *)
(* stays as it was; the release completes either way.                      *)
C16_ReleaseFlushesOnce ==
    (call.op = "drop" /\ fg_pc = "dropped") =>
        IF call.before.has_pending_changes
        THEN /\ call.result.saves = 1
             /\ storage = IF call.result.save_ok
                          THEN Stored(call.before)
                          ELSE call.result.stored_before
        ELSE /\ call.result.saves = 0
             /\ storage = call.result.stored_before

(* the account was released after set_alias with a new alias, and the      *)
(* stored record holds the new alias                                       *)
C16_Witness ==
    /\ call.op = "drop"
    /\ fg_pc = "dropped"
    /\ call.before.has_pending_changes
    /\ call.before.alias # call.result.stored_before.alias
    /\ call.result.saves = 1
    /\ storage.alias = call.before.alias

(***************************************************************************)
(* Claims about latest_address, checked under SpecLatest.                  *)
(***************************************************************************)
(* C17: latest_address returns None exactly when the account has no        *)
(* non-internal address; otherwise it returns a non-internal address of    *)
(* the account, and no non-internal address of the account has a larger    *)
(* key_index.                                                              *)
C17_LatestNonInternal ==
    call.op = "latest_address" =>
        LET addresses == call.before.addresses
            candidates == {addresses[i] : i \in NonInternal(addresses)}
        IN  /\ call.result.some <=> candidates # {}
            /\ call.result.some =>
                  /\ call.result.address \in candidates
                  /\ \A a \in candidates :
                        a.key_index <= call.result.address.key_index

(* an internal address has the largest key_index of the account, and a     *)
(* non-internal address with a smaller one is returned                     *)
C17_Witness ==
    /\ call.op = "latest_address"
    /\ call.result.some
    /\ \E i \in 1..Len(call.before.addresses) :
          /\ call.before.addresses[i].internal
          /\ call.before.addresses[i].key_index > call.result.address.key_index

(***************************************************************************)
(* Claims about list_addresses, checked under SpecListAddresses.           *)
(***************************************************************************)
(* an address is spent iff the history holds a message with negative value *)
(* whose address equals it                                                 *)
Spent(acc, address) ==
    \E i \in 1..Len(acc.messages) :
        /\ acc.messages[i].value < 0
        /\ acc.messages[i].address = address

(* C18: list_addresses(true) returns the unspent addresses of the account, *)
(* in their order, and list_addresses(false) the spent ones.               *)
C18_ListsByUnspent ==
    call.op = "list_addresses" =>
        call.result = SelectSeq(call.before.addresses,
                                LAMBDA a : (~Spent(call.before, a.address)) = call.args)

(***************************************************************************)
(* Frame of select_input, checked under SpecSelect.                        *)
(***************************************************************************)
(* C19: after a call of select_input, successful or failing, the           *)
(* candidate list holds the inputs it held before the call, each as often  *)
(* as before: the call only reorders the list.                             *)
C19_OnlyReorders ==
    SelectCalled => SeqToBag(available_utxos) = SeqToBag(sel_before)

(* a successful call that left the list in another order, with two inputs  *)
(* of the same address and balance in it                                   *)
C19_Witness ==
    /\ SelectCalled
    /\ sel_result.ok
    /\ available_utxos # sel_before
    /\ \E i, j \in 1..Len(sel_before) : i # j /\ sel_before[i] = sel_before[j]

(***************************************************************************)
(* Claims about the events of reconciliation, checked under SpecMonitor.   *)
(***************************************************************************)
(* C21: when the stored flag of the message the account started with is    *)
(* no longer the flag it started with, a ConfirmationChange event for the  *)
(* message with the stored value has been emitted.                         *)
C21_FlipEmitsEvent ==
    \A i \in 1..Len(storage.messages) :
        (/\ storage.messages[i].id = FirstMessage.id
         /\ storage.messages[i].confirmed # FirstMessage.confirmed)
        => \E j \in 1..Len(emitted) :
              /\ emitted[j].type = "ConfirmationChange"
              /\ emitted[j].message_id = FirstMessage.id
              /\ SomeBool(emitted[j].confirmed) = storage.messages[i].confirmed

(* C22: a step in which events are emitted is a step of a thread whose     *)
(* save of the mutated account has succeeded.                              *)
C22_PersistBeforePublish ==
    [][emitted' # emitted =>
          \/ \E t \in Tasks : tasks'[t] # tasks[t] /\ tasks'[t].result = "Ok"
          \/ delivery' # delivery /\ delivery'.result = "Ok"]_vars

(***************************************************************************)
(* Claims about output notifications, checked under SpecOutputs.           *)
(***************************************************************************)
(* how many messages of a history have the id *)
CountOfMessage(messages, message_id) ==
    Cardinality({i \in 1..Len(messages) : messages[i].id = message_id})

(* how many NewTransaction events for the id a sequence of events holds *)
CountOfNewTransaction(events, message_id) ==
    Cardinality({j \in 1..Len(events) :
                    /\ events[j].type = "NewTransaction"
                    /\ events[j].message_id = message_id})

(* C23: when a task runs the closure of process_output on the reloaded     *)
(* history, the history it leaves holds the referenced message once, with  *)
(* confirmed Some(true); if the reloaded history held the message, no      *)
(* entry is added and no NewTransaction event is emitted, otherwise one    *)
(* entry is added and one NewTransaction event is emitted; and the save    *)
(* that succeeds stores that history.                                      *)
C23_OneConfirmedEntry ==
    [][\A t \in Tasks :
          /\ (tasks[t].pc = "fetched" /\ tasks'[t].pc = "mutated") =>
                LET m == tasks[t].message_id
                    before == storage.messages
                    after == tasks'[t].account.messages
                    events == SubSeq(emitted', Len(emitted) + 1, Len(emitted'))
                IN  /\ CountOfMessage(after, m) = 1
                    /\ after[PositionOfMessage(after, m)].confirmed = "Some(true)"
                    /\ IF CountOfMessage(before, m) > 0
                       THEN /\ Len(after) = Len(before)
                            /\ CountOfNewTransaction(events, m) = 0
                       ELSE /\ after = Append(before, after[Len(after)])
                            /\ CountOfNewTransaction(events, m) = 1
          /\ (tasks[t].pc = "mutated" /\ tasks'[t].result = "Ok") =>
                storage' = Stored(tasks[t].account)]_vars

(* two notifications for a message that was not in the history have both   *)
(* been processed successfully, and the stored history holds the message   *)
(* once, confirmed                                                         *)
C23_Witness ==
    /\ \A t \in {1, 2} : /\ tasks[t].pc = "done"
                         /\ tasks[t].result = "Ok"
                         /\ tasks[t].message_id = SecondMessage.id
    /\ CountOfMessage(storage.messages, SecondMessage.id) = 1
    /\ StoredConfirmed(SecondMessage.id)
    /\ CountOfNewTransaction(emitted, SecondMessage.id) >= 1

(* C24: a task calls get_message only for a message that is not in the    *)
(* stored history; a notification for a message of the history is not      *)
(* given up because the fetch fails.                                       *)
C24_FetchOnlyWhenAbsent ==
    [][\A t \in Tasks :
          (tasks[t].pc = "idle" /\ tasks'[t].pc # "idle" /\ tasks'[t].fetched) =>
              PositionOfMessage(storage.messages, tasks'[t].message_id) = 0]_vars

(***************************************************************************)
(* Claims about the stored record under concurrent writers: C25 is checked *)
(* under Spec, C26 under SpecFlush.                                        *)
(***************************************************************************)
(* C25: no step makes the stored address list shorter or removes a key     *)
(* index from it.                                                          *)
C25_StoredAddressesOnlyGrow ==
    [][/\ Len(storage'.addresses) >= Len(storage.addresses)
       /\ KeysOf(storage.addresses) \subseteq KeysOf(storage'.addresses)]_vars

(* C26: save_pending_changes and the release of the account change the     *)
(* alias and the client options of the stored record only: the addresses   *)
(* with their balances and the messages with their flags, which the        *)
(* foreground caller has not touched, stay as the reconciliation tasks     *)
(* stored them.                                                            *)
C26_FlushKeepsReconciled ==
    [][(call' # call /\ call'.op \in {"save_pending_changes", "drop"}) =>
          /\ storage'.addresses = storage.addresses
          /\ storage'.messages = storage.messages]_vars

(***************************************************************************)
(* Claims about generate_address, checked under SpecGenerate.              *)
(***************************************************************************)
(* C27: when generate_address has returned Ok, the address list is the     *)
(* list before the call with the returned address appended, the key_index  *)
(* of that address is the length of the list before the call, and the      *)
(* stored record holds the list; this is so whether or not the             *)
(* subscription of the new address succeeded.                              *)
C27_GenerateAppendsAndPersists ==
    GenerateReturnedOk =>
        /\ account.addresses = Append(call.before.addresses, call.result.address)
        /\ call.result.address.key_index = Len(call.before.addresses)
        /\ storage.addresses = account.addresses

(* generate_address has returned Ok on an account that had an address, and *)
(* the new address is not subscribed                                       *)
C27_Witness ==
    /\ GenerateReturnedOk
    /\ Len(call.before.addresses) >= 1
    /\ call.result.address.address \notin subscribed
    /\ storage.addresses[Len(storage.addresses)] = call.result.address

(* C28: when generate_address has returned an error, the address list of   *)
(* the in-memory account is the list before the call.                      *)
C28_GenerateAtomicOnFailure ==
    (call.op = "generate_address" /\ fg_pc = "idle" /\ ~call.result.ok) =>
        account.addresses = call.before.addresses

(***************************************************************************)
(* Claims about the two searches of select_input, checked under            *)
(* SpecSelect.                                                             *)
(***************************************************************************)
(* the number of recursive calls (inclusion and omission branches, at all  *)
(* depths) that a call of branch_and_bound makes                           *)
RECURSIVE BranchesExplored(_, _, _, _, _)
BranchesExplored(target, utxos, depth, effective_value, tries) ==
    IF effective_value >= target \/ tries <= 0 \/ depth >= Len(utxos) THEN 0
    ELSE LET with == effective_value + utxos[depth + 1].balance
             inclusion == branch_and_bound(target, utxos, depth + 1, <<>>, with,
                                           tries - 1)
         IN  1 + BranchesExplored(target, utxos, depth + 1, with, tries - 1)
               + IF inclusion.found THEN 0
                 ELSE 1 + BranchesExplored(target, utxos, depth + 1,
                                           effective_value, tries - 1)

(* C29: the branches that the search of a select_input call explores are   *)
(* no more than the budget the search is started with.                     *)
C29_GlobalTrialBudget ==
    (SelectCalled /\ sel_result.error # "InsufficientFunds") =>
        BranchesExplored(sel_target, SortDesc(sel_before), 0, 0,
                         InitialTries(Len(sel_before)))
            <= InitialTries(Len(sel_before))

(* C30: the selection of single_random_draw is a prefix of the shuffled    *)
(* list; without its last element its sum is less than target, and it      *)
(* stops short of the end of the list only with a sum that has reached     *)
(* target.                                                                 *)
C30_DrawStopsWhenTargetMet ==
    (SelectCalled /\ sel_result.via = "single_random_draw") =>
        LET coins == sel_result.coins
        IN  /\ Len(coins) <= Len(available_utxos)
            /\ coins = SubSeq(available_utxos, 1, Len(coins))
            /\ coins # <<>> =>
                  SumBalance(SubSeq(coins, 1, Len(coins) - 1)) < sel_target
            /\ Len(coins) < Len(available_utxos) => SumBalance(coins) >= sel_target

(* a draw that took two of three candidates *)
C30_Witness ==
    /\ SelectCalled
    /\ sel_result.via = "single_random_draw"
    /\ Len(sel_result.coins) = 2
    /\ Len(available_utxos) = 3
    /\ SumBalance(sel_result.coins) > sel_target

(***************************************************************************)
(* Claims about the explicit save_pending_changes, checked under           *)
(* SpecAccount.                                                            *)
(***************************************************************************)
(* C31: a call of save_pending_changes saves the account exactly when the  *)
(* dirty flag is set. A save that succeeds stores the account and clears   *)
(* the flag; a save that fails returns the error, leaves the stored record *)
(* as it was and the flag set, and the call of save_pending_changes or the *)
(* release that comes next saves again. With the flag clear the call       *)
(* returns Ok and changes nothing.                                         *)
C31_ExplicitSave ==
    [][/\ (call' # call /\ call'.op = "save_pending_changes") =>
             /\ call'.before = account
             /\ call'.result.saves = (IF account.has_pending_changes THEN 1 ELSE 0)
             /\ call'.result.ok =>
                   /\ ~account'.has_pending_changes
                   /\ Stored(account') = Stored(account)
                   /\ storage' = IF account.has_pending_changes
                                 THEN Stored(account) ELSE storage
             /\ ~call'.result.ok =>
                   /\ account.has_pending_changes
                   /\ account' = account
                   /\ storage' = storage
       /\ (/\ call.op = "save_pending_changes"
           /\ ~call.result.ok
           /\ call' # call
           /\ call'.op \in {"save_pending_changes", "drop"}) =>
             call'.result.saves = 1
      ]_vars

(* a save_pending_changes that failed: the error is returned, the flag is  *)
(* still set and the stored record does not have the pending change        *)
C31_Witness ==
    /\ call.op = "save_pending_changes"
    /\ call.before.has_pending_changes
    /\ call.result.saves = 1
    /\ ~call.result.ok
    /\ account.has_pending_changes
    /\ storage # Stored(account)

(***************************************************************************)
(* Claims about monitor_confirmation_state_change, checked under           *)
(* SpecSubscribe.                                                          *)
(***************************************************************************)
(* C32: a call of monitor_confirmation_state_change with a message id that *)
(* the account does not have returns NotFound, subscribes nothing and      *)
(* leaves the calling thread running.                                      *)
C32_UnknownMessageNotFound ==
    (/\ call.op = "monitor_confirmation_state_change"
     /\ PositionOfMessage(call.before.messages, call.args) = 0) =>
        /\ call.result = "NotFound"
        /\ fg_pc # "panicked"
        /\ \A s \in metadata_subscribed : s.message_id # call.args

(***************************************************************************)
(* Claims about AccountInitialiser::initialise, checked under              *)
(* SpecInitialise.                                                         *)
(***************************************************************************)
(* the last call was a persisting initialise on a storage whose last       *)
(* account has no messages and a total balance of zero                     *)
PersistingOnEmptyLatest ==
    /\ call.op = "initialise"
    /\ ~call.args.skip_persistance
    /\ call.before # <<>>
    /\ call.before[Len(call.before)].messages = <<>>
    /\ total_balance(call.before[Len(call.before)]) = 0

(* the stored accounts have the indexes 0..n-1 in the order of their       *)
(* creation, and no two of them have the same id                           *)
IndexesInCreationOrder ==
    /\ \A i \in 1..Len(storage) : storage[i].index = i - 1
    /\ \A i, j \in 1..Len(storage) : storage[i].id = storage[j].id => i = j

(* C33 as stated: a persisting initialise that succeeds gives the account  *)
(* the number of stored accounts as its index, every persisting initialise *)
(* on a storage whose last account is empty is rejected with               *)
(* LatestAccountIsEmpty, and the stored accounts have the indexes 0..n-1   *)
(* in creation order.                                                      *)
C33_RejectedWhenLatestEmpty ==
    /\ (call.op = "initialise" /\ ~call.args.skip_persistance
            /\ call.result.result = "Ok") =>
          /\ account.index = Len(call.before)
          /\ storage = Append(call.before, account)
    /\ PersistingOnEmptyLatest =>
          /\ call.result.result = "LatestAccountIsEmpty"
          /\ storage = call.before
    /\ IndexesInCreationOrder

(* C33: a persisting initialise that succeeds gives the account the number *)
(* of stored accounts as its index and stores it after them; a persisting  *)
(* initialise on a storage whose last account is empty is rejected and     *)
(* stores nothing, with LatestAccountIsEmpty when the stored accounts were *)
(* loaded and the signer type is set; the stored accounts have the indexes *)
(* 0..n-1 in creation order and pairwise distinct ids.                     *)
C33_CreationOrder ==
    /\ (call.op = "initialise" /\ ~call.args.skip_persistance
            /\ call.result.result = "Ok") =>
          /\ account.index = Len(call.before)
          /\ storage = Append(call.before, account)
    /\ PersistingOnEmptyLatest =>
          /\ call.result.result # "Ok"
          /\ storage = call.before
          /\ (call.result.io # "get_all fails" /\ call.args.signer_type # "None") =>
                call.result.result = "LatestAccountIsEmpty"
    /\ IndexesInCreationOrder

(* a third account was refused because the second one is empty *)
C33_Witness ==
    /\ PersistingOnEmptyLatest
    /\ call.result.result = "LatestAccountIsEmpty"
    /\ Len(storage) = 2
    /\ storage[1].index = 0
    /\ storage[2].index = 1

====
